---- MODULE Spec2Model ----
(***************************************************************************)
(* Model of the agent monitor of pixel-agents                              *)
(* (webview-ui/src-tauri/src/lib.rs): the agent registry and its merge     *)
(* policy (upsert_agent, the fold of scan_codex), the aging policy, the    *)
(* snapshot builder and the notification differ of desktop_monitor_tick.   *)
(***************************************************************************)
EXTENDS Integers, Sequences, FiniteSets, TLC

\* ------------------------------------------------------------------------
\* Program constants
\* ------------------------------------------------------------------------
IDLE_AFTER_MS == 20000
DONE_AFTER_MS == 90000

\* Option::None of an Option<String> field (a text, a repo path, a name).
None == "<none>"

\* ------------------------------------------------------------------------
\* Bounds of the model
\* ------------------------------------------------------------------------
\* Event timestamps of the registry specifications are 1000, 2000, ...
MaxTs == 3
\* SpecFold folds at most MaxFolds observations into the registry.
MaxFolds == 3
\* SpecOrder upserts a set of at most MaxBatch observations of one key.
MaxBatch == 2
\* Spec: collect_files keeps the MaxFiles newest files of a tree (the
\* scaled-down MAX_OPENCODE_FILES and MAX_OPENCODE_PART_FILES).
MaxFiles == 1
\* Spec: the tail window of the Codex log holds its MaxLines last lines (the
\* scaled-down CODEX_TAIL_BYTES).
MaxLines == 1
\* At most MaxInFlight invocations of desktop_monitor_tick are under way
\* at once.
MaxInFlight == 2
\* SpecOverlap records at most MaxPolls polls, SpecEdges MaxEdgePolls,
\* SpecReturn MaxTimedPolls and SpecQuiet MaxQuietPolls.
MaxPolls == 5
MaxEdgePolls == 4
MaxTimedPolls == 3
MaxQuietPolls == 3
\* SpecScanOpencode: the part tree holds at most MaxParts part files.
MaxParts == 2
\* SpecScanCodex: the tail window of the log holds at most MaxLogLines lines.
MaxLogLines == 21
\* SpecCorrupt: a scanner reads at most MaxRead items of a source (the
\* scaled-down MAX_OPENCODE_FILES, MAX_OPENCODE_PART_FILES,
\* MAX_OPENCODE_DB_PARTS and CODEX_TAIL_BYTES).
MaxRead == 2

VARIABLES
  \* --- the registry specifications (SpecUpsert, SpecFold, SpecOrder)
  map,        \* HashMap<String, AgentTemp>: the registry of the current poll
  incoming,   \* the observation the last fold step was given
  repeated,   \* TRUE when the last upsert_agent call was given the same
              \* observation as the call before it
  seen,       \* key -> the timestamps of the observations folded for the key
  nfold,      \* number of observations folded so far
  batch,      \* SpecOrder: the set of observations of one key to upsert
  todo,       \* SpecOrder: the observations of batch not upserted yet
  \* --- the poll specification (Spec)
  settings,         \* monitor-settings.json as read_monitor_settings reads it
  repo_bindings,    \* monitor-repo-bindings.json: key -> repo path
  now,              \* the clock (now_ms)
  opencode_store,   \* the OpenCode JSON store: message and part files
  codex_log,        \* the Codex session log: the lines of its tail window
  previous_states,  \* AppState.previous_states: key -> state
  payload,          \* the MonitorTickPayload returned by the poll that has
                    \* just run (NoPayload after any other step)
  table_before,     \* history: previous_states as that poll found it
  poll_read,        \* history: the settings and the registry that poll read
                    \* when it built its snapshot
  polls,            \* history: what each invocation so far returned, in the
                    \* order in which the invocations returned
  in_flight,        \* the invocations of desktop_monitor_tick that have
                    \* built their snapshot and not yet taken the lock on
                    \* previous_states, each with what it read and built
  \* --- the specifications of single functions
  input,      \* the arguments the function is given
  output      \* what it returned (NotCalled before the call)

reg_vars == <<map, incoming, repeated, seen, nfold, batch, todo>>
poll_vars == <<settings, repo_bindings, now, opencode_store, codex_log,
               previous_states, payload, table_before, poll_read, polls,
               in_flight>>
fn_vars == <<input, output>>
vars == <<map, incoming, repeated, seen, nfold, batch, todo,
          settings, repo_bindings, now, opencode_store, codex_log,
          previous_states, payload, table_before, poll_read, polls,
          in_flight, input, output>>

\* ------------------------------------------------------------------------
\* Data
\* ------------------------------------------------------------------------
MonitorEventView(ts, event_type, state_hint, text) ==
  [ts_ms |-> ts, event_type |-> event_type, state_hint |-> state_hint,
   text |-> text, files_touched |-> <<>>]

\* The AgentTemp a store scanner builds for one record: the record's own
\* values and a recent_events list holding the one event of that record.
AgentTemp(source, session_id, agent_name, state, ts, text, repo_path, event_type) ==
  [key |-> source \o ":" \o session_id,
   source |-> source,
   session_id |-> session_id,
   agent_name |-> agent_name,
   state |-> state,
   last_ts_ms |-> ts,
   last_text |-> text,
   repo_path |-> repo_path,
   recent_events |-> <<MonitorEventView(ts, event_type, state, text)>>]

EmptyMap == [k \in {} |-> None]

\* ------------------------------------------------------------------------
\* Agent registry / merge policy
\* ------------------------------------------------------------------------
\* Variants of upsert_agent with one plausible slip each.
\* The timestamp comparison is missing: the incoming observation always wins.
upsert_agent_always_replaces(m, inc) ==
  IF inc.key \in DOMAIN m
  THEN LET existing == m[inc.key] IN
       [m EXCEPT ![inc.key] =
          [inc EXCEPT
             !.repo_path = IF @ = None THEN existing.repo_path ELSE @,
             !.last_text = IF @ = None THEN existing.last_text ELSE @,
             !.agent_name = IF @ = None THEN existing.agent_name ELSE @]]
  ELSE (inc.key :> inc) @@ m

\* The replaced record's events are kept behind the new one's.
upsert_agent_keeps_history(m, inc) ==
  IF inc.key \in DOMAIN m
  THEN LET existing == m[inc.key] IN
       IF inc.last_ts_ms >= existing.last_ts_ms
       THEN [m EXCEPT ![inc.key] =
               [inc EXCEPT
                  !.repo_path = IF @ = None THEN existing.repo_path ELSE @,
                  !.last_text = IF @ = None THEN existing.last_text ELSE @,
                  !.agent_name = IF @ = None THEN existing.agent_name ELSE @,
                  !.recent_events = @ \o existing.recent_events]]
       ELSE m
  ELSE (inc.key :> inc) @@ m

\* The back-fill of the unset fields is missing.
upsert_agent_no_backfill(m, inc) ==
  IF inc.key \in DOMAIN m
  THEN IF inc.last_ts_ms >= m[inc.key].last_ts_ms
       THEN [m EXCEPT ![inc.key] = inc]
       ELSE m
  ELSE (inc.key :> inc) @@ m

upsert_agent(m, inc) ==
  IF inc.key \in DOMAIN m
  THEN LET existing == m[inc.key] IN
       IF inc.last_ts_ms >= existing.last_ts_ms
       THEN LET merged ==
                  [inc EXCEPT
                     !.repo_path = IF @ = None THEN existing.repo_path ELSE @,
                     !.last_text = IF @ = None THEN existing.last_text ELSE @,
                     !.agent_name = IF @ = None THEN existing.agent_name ELSE @]
            IN [m EXCEPT ![inc.key] = merged]
       ELSE m
  ELSE (inc.key :> inc) @@ m

\* ------------------------------------------------------------------------
\* The fold of the tail-log scanner (scan_codex, one parsed line)
\* ------------------------------------------------------------------------
RECENT_EVENTS_CAP == 20

\* What scan_codex computes from one line before it touches the registry.
CodexRecord(session_id, ts, state, event_type, text, repo_path, agent_name) ==
  [key |-> "codex:" \o session_id,
   session_id |-> session_id,
   ts |-> ts,
   state |-> state,
   event_type |-> event_type,
   text |-> text,
   repo_path |-> repo_path,
   agent_name |-> agent_name]

\* Vec::truncate
truncate(seq, n) == IF Len(seq) > n THEN SubSeq(seq, 1, n) ELSE seq

\* A variant with a slip: the record always becomes the latest one.
scan_codex_record_always_advances(m, r) ==
  LET event == MonitorEventView(r.ts, r.event_type, r.state, r.text)
      entry == IF r.key \in DOMAIN m
               THEN m[r.key]
               ELSE [key |-> r.key, source |-> "codex",
                     session_id |-> r.session_id, agent_name |-> None,
                     state |-> "idle", last_ts_ms |-> r.ts,
                     last_text |-> "Session discovered",
                     repo_path |-> r.repo_path, recent_events |-> <<>>]
      e1 == [entry EXCEPT
               !.repo_path = IF @ = None /\ r.repo_path # None
                             THEN r.repo_path ELSE @,
               !.agent_name = IF @ = None /\ r.agent_name # None
                              THEN r.agent_name ELSE @,
               !.recent_events = truncate(<<event>> \o @, RECENT_EVENTS_CAP)]
      e2 == [e1 EXCEPT
               !.last_ts_ms = r.ts,
               !.state = r.state,
               !.last_text = r.text,
               !.agent_name = IF r.agent_name # None THEN r.agent_name ELSE @]
  IN (r.key :> e2) @@ m

scan_codex_record(m, r) ==
  LET event == MonitorEventView(r.ts, r.event_type, r.state, r.text)
      recorded(entry) ==
        LET e1 == [entry EXCEPT
                     !.repo_path = IF @ = None /\ r.repo_path # None
                                   THEN r.repo_path ELSE @,
                     !.agent_name = IF @ = None /\ r.agent_name # None
                                    THEN r.agent_name ELSE @,
                     !.recent_events =
                        truncate(<<event>> \o @, RECENT_EVENTS_CAP)]
            e2 == IF r.ts >= e1.last_ts_ms
                  THEN [e1 EXCEPT
                          !.last_ts_ms = r.ts,
                          !.state = r.state,
                          !.last_text = r.text,
                          !.agent_name = IF r.agent_name # None
                                         THEN r.agent_name ELSE @]
                  ELSE e1
        IN (r.key :> e2) @@ m
  \* map.entry(key).or_insert(..)
  IN IF r.key \in DOMAIN m
     THEN recorded(m[r.key])
     ELSE recorded([key |-> r.key, source |-> "codex",
                    session_id |-> r.session_id, agent_name |-> None,
                    state |-> "idle", last_ts_ms |-> r.ts,
                    last_text |-> "Session discovered",
                    repo_path |-> r.repo_path, recent_events |-> <<>>])

\* The poll variables in the specifications that do not use them.
\* The variables of the specifications of single functions, where unused
NotCalled == [called |-> FALSE]

Returned(value) == [called |-> TRUE, value |-> value]

FnUnused == input = NotCalled /\ output = NotCalled

PollUnused ==
  /\ settings = None
  /\ repo_bindings = None
  /\ now = 0
  /\ opencode_store = None
  /\ codex_log = None
  /\ previous_states = None
  /\ payload = None
  /\ table_before = None
  /\ poll_read = None
  /\ polls = None
  /\ in_flight = None

\* ------------------------------------------------------------------------
\* Input sets of the registry specifications
\* ------------------------------------------------------------------------
Timestamps == {1000 * i : i \in 1..MaxTs}
UpsertStates == {"running", "done"}
Texts == {None, "Thinking"}
RepoPaths == {None, "/x"}
AgentNames == {None, "fix bug"}

\* Every observation of session s1 over the field values above.
IncomingsS1 ==
  {AgentTemp("opencode", "s1", n, st, ts, tx, rp, "status") :
     n \in AgentNames, st \in UpsertStates,
     ts \in Timestamps, tx \in Texts, rp \in RepoPaths}

\* The observations of a second session that carry no metadata (the key
\* that a call for s1 must leave alone).
IncomingsS2 ==
  {AgentTemp("opencode", "s2", None, st, ts, None, None, "status") :
     st \in UpsertStates, ts \in Timestamps}

Incomings == IncomingsS1 \cup IncomingsS2

NoObservation == [key |-> None]

\* ------------------------------------------------------------------------
\* Specification SpecUpsert: upsert_agent applied to observations drawn
\* from small sets, starting from the empty registry of a poll.
\* ------------------------------------------------------------------------
InitUpsert ==
  /\ map = EmptyMap
  /\ incoming = NoObservation
  /\ repeated = FALSE
  /\ seen = EmptyMap
  /\ nfold = 0
  /\ batch = {}
  /\ todo = {}
  /\ PollUnused
  /\ FnUnused

UpsertAgent(o) ==
  /\ map' = upsert_agent(map, o)
  /\ incoming' = o
  /\ repeated' = (o = incoming)
  /\ UNCHANGED <<seen, nfold, batch, todo>>
  /\ UNCHANGED poll_vars
  /\ UNCHANGED fn_vars

NextUpsert == \E o \in Incomings : UpsertAgent(o)

SpecUpsert == InitUpsert /\ [][NextUpsert]_vars

\* C5: an upsert_agent call whose observation is strictly older than the
\* record stored for its key leaves the whole registry as it was: the
\* stored record keeps every field and no other key changes.
C5_UpsertNeverRegresses ==
  [][(/\ incoming'.key \in DOMAIN map
      /\ incoming'.last_ts_ms < map[incoming'.key].last_ts_ms)
     => map' = map]_vars

\* An older observation of s1 has just been offered to a registry that
\* holds a newer, different record of s1 and a record of s2.
C5_Witness ==
  /\ incoming.key = "opencode:s1"
  /\ "opencode:s1" \in DOMAIN map
  /\ "opencode:s2" \in DOMAIN map
  /\ incoming.last_ts_ms < map["opencode:s1"].last_ts_ms
  /\ incoming.state # map["opencode:s1"].state
  /\ incoming.last_text # map["opencode:s1"].last_text
  /\ incoming.repo_path # map["opencode:s1"].repo_path

\* C6: giving upsert_agent the observation it was just given leaves the
\* registry as the first call left it.
C6_UpsertIdempotent ==
  [][incoming' = incoming => map' = map]_vars

\* The same observation has been upserted twice in a row, onto an older
\* record whose repo path and text it had to take over.
C6_Witness ==
  /\ repeated
  /\ incoming.repo_path = None
  /\ incoming.last_text = None
  /\ map[incoming.key].repo_path # None
  /\ map[incoming.key].last_text # None
  /\ map[incoming.key].last_ts_ms = incoming.last_ts_ms

\* C7: when the incoming observation is at least as new as the stored
\* record, the stored record becomes the incoming one (its timestamp, its
\* state, its events), except that each of repo_path, last_text and
\* agent_name the incoming observation leaves unset keeps the stored value.
C7_MergeBackfill ==
  [][(/\ incoming'.key \in DOMAIN map
      /\ incoming'.last_ts_ms >= map[incoming'.key].last_ts_ms)
     => LET old == map[incoming'.key]
            new == map'[incoming'.key]
            inc == incoming'
        IN /\ new.last_ts_ms = inc.last_ts_ms
           /\ new.state = inc.state
           /\ new.recent_events = inc.recent_events
           /\ new.repo_path =
                (IF inc.repo_path = None THEN old.repo_path ELSE inc.repo_path)
           /\ new.last_text =
                (IF inc.last_text = None THEN old.last_text ELSE inc.last_text)
           /\ new.agent_name =
                (IF inc.agent_name = None THEN old.agent_name ELSE inc.agent_name)
           /\ \A k \in DOMAIN map \ {inc.key} : map'[k] = map[k]]_vars

\* A strictly newer observation that sets a name but neither repo path nor
\* text has replaced a record that had a repo path and a text.
C7_Witness ==
  /\ incoming.key = "opencode:s1"
  /\ incoming.last_ts_ms > 1000
  /\ incoming.repo_path = None
  /\ incoming.last_text = None
  /\ incoming.agent_name # None
  /\ "opencode:s1" \in DOMAIN map
  /\ map["opencode:s1"].last_ts_ms = incoming.last_ts_ms
  /\ map["opencode:s1"].state = incoming.state
  /\ map["opencode:s1"].repo_path = "/x"
  /\ map["opencode:s1"].last_text = "Thinking"
  /\ map["opencode:s1"].agent_name = incoming.agent_name

\* ------------------------------------------------------------------------
\* Specification SpecFold: one poll's registry, filled by upsert_agent calls
\* (the store scanners) and by lines of the tail log, in any order.
\* ------------------------------------------------------------------------
FoldIncomings ==
  {AgentTemp("opencode", "s1", None, st, ts, tx, None, "status") :
     st \in UpsertStates, ts \in Timestamps, tx \in Texts}

FoldCodexRecords ==
  {CodexRecord("c1", ts, "thinking", "status", "Thinking", None, None) :
     ts \in Timestamps}
  \cup
  {CodexRecord("c1", ts, "done", "status", "Turn completed", None, None) :
     ts \in Timestamps}

Max(S) == CHOOSE x \in S : \A y \in S : y <= x

Saw(k, ts) ==
  (k :> ((IF k \in DOMAIN seen THEN seen[k] ELSE {}) \cup {ts})) @@ seen

InitFold ==
  /\ map = EmptyMap
  /\ incoming = NoObservation
  /\ repeated = FALSE
  /\ seen = EmptyMap
  /\ nfold = 0
  /\ batch = {}
  /\ todo = {}
  /\ PollUnused
  /\ FnUnused

FoldUpsert(o) ==
  /\ nfold < MaxFolds
  /\ map' = upsert_agent(map, o)
  /\ incoming' = o
  /\ seen' = Saw(o.key, o.last_ts_ms)
  /\ nfold' = nfold + 1
  /\ UNCHANGED <<repeated, batch, todo>>
  /\ UNCHANGED poll_vars
  /\ UNCHANGED fn_vars

FoldCodexLine(r) ==
  /\ nfold < MaxFolds
  /\ map' = scan_codex_record(map, r)
  /\ incoming' = r
  /\ seen' = Saw(r.key, r.ts)
  /\ nfold' = nfold + 1
  /\ UNCHANGED <<repeated, batch, todo>>
  /\ UNCHANGED poll_vars
  /\ UNCHANGED fn_vars

NextFold ==
  \/ \E o \in FoldIncomings : FoldUpsert(o)
  \/ \E r \in FoldCodexRecords : FoldCodexLine(r)

SpecFold == InitFold /\ [][NextFold]_vars

\* C8: while a poll folds observations, the registry holds exactly the keys
\* observed, each record's last_ts_ms is the greatest timestamp observed for
\* its key so far, and no step decreases a record's last_ts_ms.
C8_LastTsIsMaxSeen ==
  /\ [](/\ DOMAIN map = DOMAIN seen
        /\ \A k \in DOMAIN map : map[k].last_ts_ms = Max(seen[k]))
  /\ [][\A k \in DOMAIN map :
          k \in DOMAIN map' /\ map'[k].last_ts_ms >= map[k].last_ts_ms]_vars

\* Both scanners have folded observations, the tail log out of order: its
\* last line is older than the agent's recorded latest.
C8_Witness ==
  /\ "opencode:s1" \in DOMAIN map
  /\ "codex:c1" \in DOMAIN map
  /\ incoming.key = "codex:c1"
  /\ incoming.ts < map["codex:c1"].last_ts_ms
  /\ Cardinality(seen["codex:c1"]) = 2

\* C14: in the tail-log scanner a record whose timestamp is earlier than
\* the agent's recorded latest timestamp changes none of the agent's state,
\* last_text and last_ts_ms, but is still inserted into recent_events (at
\* its head); a record whose timestamp is at or after the recorded latest
\* sets state, last_text and last_ts_ms to its own.
C14_LateLineKeepsStateAddsEvent ==
  [][(nfold' = nfold + 1 /\ incoming'.key = "codex:c1") =>
       LET r == incoming'
           new == map'[r.key]
           late == r.key \in DOMAIN map /\ r.ts < map[r.key].last_ts_ms
       IN /\ late =>
               LET old == map[r.key]
               IN /\ new.state = old.state
                  /\ new.last_text = old.last_text
                  /\ new.last_ts_ms = old.last_ts_ms
                  /\ new.recent_events[1] =
                       MonitorEventView(r.ts, r.event_type, r.state, r.text)
                  /\ Len(new.recent_events) =
                       IF Len(old.recent_events) < 20
                       THEN Len(old.recent_events) + 1 ELSE 20
          /\ ~late =>
               /\ new.state = r.state
               /\ new.last_text = r.text
               /\ new.last_ts_ms = r.ts]_vars

\* The last line folded reported done with a timestamp earlier than the
\* agent's latest: the agent is still thinking, and the line's event heads
\* its recent_events.
C14_Witness ==
  /\ incoming.key = "codex:c1"
  /\ "codex:c1" \in DOMAIN map
  /\ incoming.state = "done"
  /\ incoming.ts < map["codex:c1"].last_ts_ms
  /\ map["codex:c1"].state = "thinking"
  /\ map["codex:c1"].last_text = "Thinking"
  /\ map["codex:c1"].recent_events[1].state_hint = "done"
  /\ Len(map["codex:c1"].recent_events) = 2

\* ------------------------------------------------------------------------
\* Specification SpecOrder: a set of observations of one key, with pairwise
\* distinct timestamps, upserted into an empty registry in any order.
\* ------------------------------------------------------------------------
\* What an observation of s1 carries besides its timestamp.
BatchFields == AgentNames \X UpsertStates \X Texts \X RepoPaths

Batches ==
  UNION {
    {{AgentTemp("opencode", "s1", f[t][1], f[t][2], t, f[t][3], f[t][4], "status") :
        t \in T} : f \in [T -> BatchFields]} :
    T \in {X \in SUBSET Timestamps : Cardinality(X) <= MaxBatch}}

InitOrder ==
  /\ batch \in Batches
  /\ todo = batch
  /\ map = EmptyMap
  /\ incoming = NoObservation
  /\ repeated = FALSE
  /\ seen = EmptyMap
  /\ nfold = 0
  /\ PollUnused
  /\ FnUnused

UpsertNext(o) ==
  /\ map' = upsert_agent(map, o)
  /\ incoming' = o
  /\ todo' = todo \ {o}
  /\ UNCHANGED <<repeated, seen, nfold, batch>>
  /\ UNCHANGED poll_vars
  /\ UNCHANGED fn_vars

NextOrder == \E o \in todo : UpsertNext(o)

SpecOrder == InitOrder /\ [][NextOrder]_vars

\* The observation of a batch with the greatest timestamp.
Newest(b) == CHOOSE o \in b : \A x \in b : x.last_ts_ms <= o.last_ts_ms

\* The registry after the batch is upserted oldest first.
RECURSIVE UpsertAscending(_)
UpsertAscending(b) ==
  IF b = {} THEN EmptyMap
  ELSE upsert_agent(UpsertAscending(b \ {Newest(b)}), Newest(b))

\* The fields of a record that the claim compares.
MergedFields(a) ==
  <<a.state, a.last_ts_ms, a.last_text, a.repo_path, a.agent_name>>

\* C9 as stated: once every observation of the batch is upserted, the record
\* is the one that upserting them oldest first gives, whatever order they
\* arrived in (so every order gives the same record).
C9_SameRecordInEveryOrder ==
  (todo = {} /\ batch # {})
    => MergedFields(map["opencode:s1"])
         = MergedFields(UpsertAscending(batch)["opencode:s1"])

\* C9 as amended: once every observation of the batch is upserted, the
\* record has the state and the timestamp of the newest observation, and
\* each of last_text, repo_path and agent_name that the newest observation
\* sets; this is so whatever order they arrived in. (A field the newest
\* observation leaves unset depends on the arrival order.)
C9_NewestWinsInEveryOrder ==
  (todo = {} /\ batch # {})
    => LET a == map["opencode:s1"]
           n == Newest(batch)
       IN /\ a.state = n.state
          /\ a.last_ts_ms = n.last_ts_ms
          /\ (n.last_text # None => a.last_text = n.last_text)
          /\ (n.repo_path # None => a.repo_path = n.repo_path)
          /\ (n.agent_name # None => a.agent_name = n.agent_name)

\* The whole batch is upserted and the newest observation was not the last
\* to arrive; the older one set a repo path that the newest does not set,
\* and the record has none.
C9_Witness ==
  /\ todo = {}
  /\ Cardinality(batch) = 2
  /\ incoming # Newest(batch)
  /\ incoming.repo_path # None
  /\ incoming.state # Newest(batch).state
  /\ Newest(batch).last_text # None
  /\ map["opencode:s1"].repo_path = None
  /\ map["opencode:s1"].state = Newest(batch).state

\* ========================================================================
\* The monitor poll (desktop_monitor_tick) and what it reads
\* ========================================================================
\* Timestamps and the clock of the poll model are epoch milliseconds counted
\* from a base instant inside the range that normalize_epoch_ms returns
\* unchanged, so the scanners' normalize_epoch_ms calls leave them as they
\* are.

\* Option<i64> is a set: {} for None, {v} for Some(v).
Some(v) == {v}
unwrap_or(opt, default) == IF opt = {} THEN default ELSE CHOOSE v \in opt : TRUE

\* The member "sessionID" of a JSON document, as far as string_at reads it:
\* a string (the flat field OpenCode writes), an object with the string
\* member "sessionId", or no such member.
FlatId(session_id) == [string |-> session_id]

NestedId(session_id) == [sessionId |-> session_id]

NoId == [absent |-> TRUE]

\* string_at(&value, &["sessionID", "sessionId"]): the keys are followed as
\* a path, so the string is found at sessionID.sessionId only
session_id_at(value) ==
  IF "sessionId" \in DOMAIN value.sessionID THEN value.sessionID.sessionId
  ELSE None

\* OpenCode message file (JSON store): the fields scan_opencode reads
\* (sessionID, time.created, time.completed, summary or finish, path.root or
\* path.cwd), the name of the directory the file is in (None when the path
\* has none) and the file's modification time.
MessageFile(sessionID, parent, created, completed, summary, path, modified) ==
  [sessionID |-> sessionID, parent |-> parent, time_created |-> created,
   time_completed |-> completed, summary |-> summary, path |-> path,
   modified |-> modified]

\* OpenCode part file: the fields scan_opencode reads (sessionID, type,
\* tool, state.status, state.time.start / time.start, state.time.end /
\* time.end, text, reason) and the file's modification time.
PartFile(sessionID, type, tool, status, time_start, time_end, text, reason, modified) ==
  [sessionID |-> sessionID, type |-> type, tool |-> tool, status |-> status,
   time_start |-> time_start, time_end |-> time_end, text |-> text,
   reason |-> reason, modified |-> modified]

\* A row of the part statement of scan_opencode_db: the columns session_id
\* and time_updated, and the fields that are read of the JSON document in
\* the column data.
PartRow(session_id, time_updated, type, tool, status, time_start, time_end, text, reason) ==
  [session_id |-> session_id, time_updated |-> time_updated, type |-> type,
   tool |-> tool, status |-> status, time_start |-> time_start,
   time_end |-> time_end, text |-> text, reason |-> reason]

\* One line of a Codex session log: the fields read by scan_codex.
\* (payload.id, type, payload.type, ts, payload.cwd, the record's message,
\* payload.message, payload.name).
CodexLine(session_id, type, payload_type, ts, cwd, record_message, payload_message, name) ==
  [id |-> session_id, type |-> type, payload_type |-> payload_type,
   ts |-> ts, cwd |-> cwd, record_message |-> record_message,
   payload_message |-> payload_message, name |-> name]

\* truncate_text / truncate_option_text
MAX_MONITOR_TEXT_CHARS == 180

truncate_text(text) ==
  IF Len(text) <= MAX_MONITOR_TEXT_CHARS THEN text
  ELSE SubSeq(text, 1, MAX_MONITOR_TEXT_CHARS) \o "..."

truncate_option_text(text) ==
  IF text = None THEN None ELSE truncate_text(text)

\* str::contains
contains(hay, needle) ==
  \E i \in 1..(Len(hay) - Len(needle) + 1) :
     SubSeq(hay, i, i + Len(needle) - 1) = needle

\* HashMap::get(..).cloned() on a session -> value map
lookup(m, k) == IF k \in DOMAIN m THEN m[k] ELSE None

\* The message loop of scan_opencode: the observation of one message file.
opencode_message_observation(f, session_repo, session_name) ==
  LET session_id == IF session_id_at(f) # None THEN session_id_at(f)
                    ELSE IF f.parent # None THEN f.parent
                    ELSE "unknown"
      ts == unwrap_or(f.time_created, f.modified)
      state == IF f.time_completed # {} THEN "done" ELSE "running"
      text == truncate_option_text(f.summary)
      repo_path == IF f.path # None THEN f.path
                   ELSE lookup(session_repo, session_id)
  IN AgentTemp("opencode", session_id, lookup(session_name, session_id),
               state, ts, text, repo_path, "message")

\* The part loop of scan_opencode (and of scan_opencode_db): state, event
\* type, text and timestamp of one part.
PartTypes == {"tool", "reasoning", "step-start", "step-finish"}

\* char::is_whitespace on ASCII text: blank, tab, line feed, form feed,
\* carriage return and vertical tab (U+0009 to U+000D and U+0020; the last
\* string of the set holds the one character U+000B)
WhiteSpace == {" ", "\t", "\n", "\f", "\r", ""}

\* The first position of a set of positions of a text
least(set) == CHOOSE i \in set : \A j \in set : i <= j

\* str::trim: the text from its first to its last character that is not
\* white space
trim(text) ==
  LET ink == {i \in 1..Len(text) : SubSeq(text, i, i) \notin WhiteSpace}
  IN IF ink = {} THEN ""
     ELSE SubSeq(text, least(ink), CHOOSE i \in ink : \A j \in ink : i >= j)

\* str::lines().next().unwrap_or_default(): what comes before the first
\* line feed, less a carriage return that ends it
first_line(text) ==
  LET feeds == {i \in 1..Len(text) : SubSeq(text, i, i) = "\n"}
      line == IF feeds = {} THEN text ELSE SubSeq(text, 1, least(feeds) - 1)
  IN IF feeds # {} /\ line # "" /\ SubSeq(line, Len(line), Len(line)) = "\r"
     THEN SubSeq(line, 1, Len(line) - 1)
     ELSE line

\* The pieces of a text between the characters of a separating kind, those
\* that are not empty, first to last: str::split_whitespace, and the
\* components of a path between its separators
RECURSIVE pieces_from(_, _, _)
pieces_from(text, i, separators) ==
  LET rest == {j \in i..Len(text) : SubSeq(text, j, j) \notin separators}
  IN IF rest = {} THEN <<>>
     ELSE LET first == least(rest)
              stops == {j \in first..Len(text) :
                          SubSeq(text, j, j) \in separators}
              last == IF stops = {} THEN Len(text) ELSE least(stops) - 1
          IN <<SubSeq(text, first, last)>>
               \o pieces_from(text, last + 1, separators)

split_whitespace(text) == pieces_from(text, 1, WhiteSpace)

\* [&str]::join
RECURSIVE join(_, _)
join(words, sep) ==
  IF words = <<>> THEN ""
  ELSE IF Len(words) = 1 THEN words[1]
  ELSE words[1] \o sep \o join(Tail(words), sep)

\* str::to_lowercase on ASCII text
UpperCase == "ABCDEFGHIJKLMNOPQRSTUVWXYZ"

LowerCase == "abcdefghijklmnopqrstuvwxyz"

lower_char(c) ==
  IF \E i \in 1..Len(UpperCase) : SubSeq(UpperCase, i, i) = c
  THEN LET i == CHOOSE i \in 1..Len(UpperCase) : SubSeq(UpperCase, i, i) = c
       IN SubSeq(LowerCase, i, i)
  ELSE c

RECURSIVE to_lowercase(_)
to_lowercase(text) ==
  IF text = "" THEN ""
  ELSE lower_char(SubSeq(text, 1, 1)) \o to_lowercase(SubSeq(text, 2, Len(text)))

classify_part(f, fallback_ts) ==
  IF f.type = "tool"
  THEN LET status == IF f.status = None THEN "running" ELSE f.status
           normalized_status == to_lowercase(status)
           tool_name == IF f.tool = None THEN "tool" ELSE f.tool
           start_ts == unwrap_or(f.time_start, fallback_ts)
           end_ts == f.time_end
       IN [state |-> IF normalized_status = "error" THEN "error"
                     ELSE IF normalized_status = "completed" \/ end_ts # {}
                     THEN "done"
                     ELSE "running",
           event_type |-> IF normalized_status = "error" THEN "error"
                          ELSE "tool",
           text |-> tool_name \o ": " \o normalized_status,
           ts |-> unwrap_or(end_ts, start_ts)]
  ELSE IF f.type = "reasoning"
  THEN [state |-> "thinking", event_type |-> "status",
        text |-> IF f.text = None THEN "Thinking" ELSE f.text,
        ts |-> unwrap_or(f.time_end, unwrap_or(f.time_start, fallback_ts))]
  ELSE IF f.type = "step-start"
  THEN [state |-> "running", event_type |-> "status",
        text |-> "Step started", ts |-> fallback_ts]
  ELSE [state |-> "done", event_type |-> "status",
        text |-> "Step finished: "
                   \o (IF f.reason = None THEN "stop" ELSE f.reason),
        ts |-> fallback_ts]

\* The observation that either part loop upserts for a part of a handled
\* type: the session id and the fallback timestamp are the file's
\* (sessionID.sessionId, modification time) or the row's (session_id,
\* time_updated).
opencode_part_observation(f, session_id, fallback_ts, session_repo, session_name) ==
  LET c == classify_part(f, fallback_ts)
  IN AgentTemp("opencode", session_id, lookup(session_name, session_id),
               c.state, c.ts, truncate_option_text(c.text),
               lookup(session_repo, session_id), c.event_type)

\* A file, a data column or a log line that serde_json::from_str rejects
\* (or a file that read_to_string cannot read): it has none of the fields.
Unparseable == [unparseable |-> TRUE]

parses(item) == "unparseable" \notin DOMAIN item

\* Folds over a sequence, first element first; an item that does not parse
\* is passed over (Err(_) => continue).
RECURSIVE fold_messages(_, _, _, _)
fold_messages(m, files, session_repo, session_name) ==
  IF files = <<>> THEN m
  ELSE fold_messages(
         IF parses(Head(files))
         THEN upsert_agent(m, opencode_message_observation(
                                Head(files), session_repo, session_name))
         ELSE m,
         Tail(files), session_repo, session_name)

\* The part loop of scan_opencode: a file that does not parse, one with no
\* string at sessionID.sessionId and one of another type are passed over.
RECURSIVE fold_parts(_, _, _, _)
fold_parts(m, files, session_repo, session_name) ==
  IF files = <<>> THEN m
  ELSE fold_parts(
         IF /\ parses(Head(files))
            /\ session_id_at(Head(files)) # None
            /\ Head(files).type \in PartTypes
         THEN upsert_agent(m, opencode_part_observation(
                                Head(files), session_id_at(Head(files)),
                                Head(files).modified,
                                session_repo, session_name))
         ELSE m,
         Tail(files), session_repo, session_name)

\* The part loop of scan_opencode_db: a row whose data does not parse and
\* one of another type are passed over.
RECURSIVE fold_part_rows(_, _, _, _)
fold_part_rows(m, rows, session_repo, session_name) ==
  IF rows = <<>> THEN m
  ELSE fold_part_rows(
         IF parses(Head(rows)) /\ Head(rows).type \in PartTypes
         THEN upsert_agent(m, opencode_part_observation(
                                Head(rows), Head(rows).session_id,
                                Head(rows).time_updated,
                                session_repo, session_name))
         ELSE m,
         Tail(rows), session_repo, session_name)

\* ------------------------------------------------------------------------
\* scan_opencode_db (lib.rs:656-851)
\*
\* The database file is what the scanner can find out about it: whether it
\* exists, whether it opens, whether the statement on each table prepares,
\* and the rows each statement returns (time_updated descending).  A part
\* row is a PartRow, or Unparseable when its data column does not parse.
\* ------------------------------------------------------------------------
SessionRow(id, directory, title, time_updated) ==
  [id |-> id, directory |-> directory, title |-> title,
   time_updated |-> time_updated]

OpencodeDb(exists, opens, session_prepares, part_prepares, sessions, parts) ==
  [exists |-> exists, opens |-> opens, session_prepares |-> session_prepares,
   part_prepares |-> part_prepares, sessions |-> sessions, parts |-> parts]

db_session_observation(row) ==
  AgentTemp("opencode", row.id, row.title, "running", row.time_updated,
            "Session activity", row.directory, "status")

RECURSIVE fold_sessions(_, _)
fold_sessions(m, rows) ==
  IF rows = <<>> THEN m
  ELSE fold_sessions(upsert_agent(m, db_session_observation(Head(rows))),
                     Tail(rows))

\* session_repo and session_name as the session loop leaves them: a later
\* row's insert replaces an earlier one's
last_row(rows, id) ==
  rows[CHOOSE i \in DOMAIN rows :
         /\ rows[i].id = id
         /\ \A j \in DOMAIN rows : rows[j].id = id => j <= i]

db_session_repo(rows) ==
  [id \in {rows[i].id : i \in DOMAIN rows} |-> last_row(rows, id).directory]

db_session_name(rows) ==
  LET titled == SelectSeq(rows, LAMBDA row : row.title # None)
  IN [id \in {titled[i].id : i \in DOMAIN titled} |->
        last_row(titled, id).title]

\* scan_opencode_db folding the part rows before the session rows
scan_opencode_db_parts_first(m, db) ==
  IF ~db.exists \/ ~db.opens \/ ~db.session_prepares
  THEN [ok |-> FALSE, map |-> m]
  ELSE IF ~db.part_prepares
       THEN [ok |-> FALSE, map |-> fold_sessions(m, db.sessions)]
       ELSE [ok |-> TRUE,
             map |-> fold_sessions(
                       fold_part_rows(m, db.parts, db_session_repo(db.sessions),
                                  db_session_name(db.sessions)),
                       db.sessions)]

\* The bool scan_opencode_db returns, and the map as it leaves it
scan_opencode_db(m, db) ==
  IF ~db.exists \/ ~db.opens \/ ~db.session_prepares
  THEN [ok |-> FALSE, map |-> m]
  ELSE LET m1 == fold_sessions(m, db.sessions)
       IN IF ~db.part_prepares
          THEN [ok |-> FALSE, map |-> m1]
          ELSE [ok |-> TRUE,
                map |-> fold_part_rows(m1, db.parts, db_session_repo(db.sessions),
                                   db_session_name(db.sessions))]

\* No database file
NoDb == OpencodeDb(FALSE, FALSE, FALSE, FALSE, <<>>, <<>>)

\* The data root that holds the database file db beside the trees of store
OpencodeData(db, store) == [store EXCEPT !.db = db]

\* ------------------------------------------------------------------------
\* scan_opencode (lib.rs:853-1039): the OpenCode data root is the database
\* file (db) beside the trees of the JSON store, with session_repo and
\* session_name as load_opencode_session_repo_map and
\* load_opencode_session_name_map read them from the session and project
\* trees.
\* ------------------------------------------------------------------------
\* scan_opencode going on to the part tree when there is no message tree
scan_opencode_reads_parts_anyway(m, store) ==
  LET scanned == scan_opencode_db(m, store.db)
      m0 == scanned.map
      m1 == IF ~store.message_root_exists THEN m0
            ELSE fold_messages(m0, store.messages,
                               store.session_repo, store.session_name)
  IN IF scanned.ok THEN m0
     ELSE IF ~store.part_root_exists THEN m1
     ELSE fold_parts(m1, store.parts,
                     store.session_repo, store.session_name)

\* scan_opencode: the database first; when scan_opencode_db returns false,
\* the message files and then the part files of the JSON store, each list
\* as collect_files returns it (newest modification time first, cut to the
\* cap), into the map as scan_opencode_db left it.
scan_opencode(m, store) ==
  LET scanned == scan_opencode_db(m, store.db)
      m0 == scanned.map
  IN IF scanned.ok THEN m0
     ELSE IF ~store.message_root_exists THEN m0
     ELSE LET m1 == fold_messages(m0, store.messages,
                                  store.session_repo, store.session_name)
          IN IF ~store.part_root_exists THEN m1
             ELSE fold_parts(m1, store.parts,
                             store.session_repo, store.session_name)

\* classify_codex_event with the error tokens looked for first
classify_codex_event_error_first(kind, payload_type, message, name) ==
  LET lower == to_lowercase(kind) \o " " \o to_lowercase(payload_type)
      result(state, event_type, text) ==
        [state |-> state, event_type |-> event_type, text |-> text]
  IN IF \/ contains(lower, "error")
        \/ contains(lower, "failed")
        \/ contains(lower, "exception")
        \/ contains(lower, "fatal")
     THEN result("error", "error", "Codex error")
     ELSE IF \/ contains(lower, "task_complete")
             \/ contains(lower, "turn_completed")
             \/ contains(lower, "turn.complete")
             \/ contains(lower, "item.completed")
             \/ contains(lower, "completed")
     THEN result("done", "status", "Turn completed")
     ELSE IF \/ contains(lower, "turn_aborted")
             \/ contains(lower, "task_aborted")
             \/ contains(lower, "aborted")
     THEN result("waiting", "status", "Turn aborted")
     ELSE IF payload_type = "agent_message" \/ payload_type = "message"
     THEN result("running", "message",
                 IF message = None THEN "Assistant message" ELSE message)
     ELSE IF \/ payload_type = "agent_reasoning"
             \/ payload_type = "reasoning"
             \/ payload_type = "token_count"
     THEN result("thinking", "status", "Thinking")
     ELSE IF payload_type = "task_started"
     THEN result("running", "status", "Task started")
     ELSE IF payload_type = "user_message"
     THEN result("waiting", "message", "Waiting for input")
     ELSE IF payload_type = "function_call"
             \/ payload_type = "custom_tool_call"
     THEN result("running", "tool",
                 (IF name = None THEN "tool" ELSE name) \o ": running")
     ELSE IF payload_type = "function_call_output"
             \/ payload_type = "custom_tool_call_output"
     THEN result("running", "tool", "Tool output")
     ELSE result("running", "message",
                 IF message = None THEN kind ELSE message)

\* classify_codex_event: (state, event type, text). message is
\* record.message or else payload.message; name is payload.name or else
\* payload.function.name.
classify_codex_event(kind, payload_type, message, name) ==
  LET lower == to_lowercase(kind) \o " " \o to_lowercase(payload_type)
      result(state, event_type, text) ==
        [state |-> state, event_type |-> event_type, text |-> text]
  IN IF \/ contains(lower, "task_complete")
        \/ contains(lower, "turn_completed")
        \/ contains(lower, "turn.complete")
        \/ contains(lower, "item.completed")
        \/ contains(lower, "completed")
     THEN result("done", "status", "Turn completed")
     ELSE IF \/ contains(lower, "turn_aborted")
             \/ contains(lower, "task_aborted")
             \/ contains(lower, "aborted")
     THEN result("waiting", "status", "Turn aborted")
     ELSE IF \/ contains(lower, "error")
             \/ contains(lower, "failed")
             \/ contains(lower, "exception")
             \/ contains(lower, "fatal")
     THEN result("error", "error", "Codex error")
     ELSE IF payload_type = "agent_message" \/ payload_type = "message"
     THEN result("running", "message",
                 IF message = None THEN "Assistant message" ELSE message)
     ELSE IF \/ payload_type = "agent_reasoning"
             \/ payload_type = "reasoning"
             \/ payload_type = "token_count"
     THEN result("thinking", "status", "Thinking")
     ELSE IF payload_type = "task_started"
     THEN result("running", "status", "Task started")
     ELSE IF payload_type = "user_message"
     THEN result("waiting", "message", "Waiting for input")
     ELSE IF payload_type = "function_call"
             \/ payload_type = "custom_tool_call"
     THEN result("running", "tool",
                 (IF name = None THEN "tool" ELSE name) \o ": running")
     ELSE IF payload_type = "function_call_output"
             \/ payload_type = "custom_tool_call_output"
     THEN result("running", "tool", "Tool output")
     ELSE result("running", "message",
                 IF message = None THEN kind ELSE message)

\* Option::or_else on Option<String>
or_else(first, second) == IF first # None THEN first ELSE second

\* extract_codex_agent_name: the first line of the user's message
\* (payload.message, or else the record's message), trimmed, unless that is
\* empty
extract_codex_agent_name(kind, payload_type, record_message, payload_message) ==
  LET message == or_else(payload_message, record_message)
  IN IF kind = "event_msg" /\ payload_type = "user_message"
        /\ message # None /\ trim(first_line(message)) # ""
     THEN trim(first_line(message))
     ELSE None

\* What scan_codex computes from one parsed line of a log file whose
\* modification time is modified.
codex_record(line, modified) ==
  LET c == classify_codex_event(
              line.type, line.payload_type,
              or_else(line.record_message, line.payload_message), line.name)
  IN CodexRecord(line.id, unwrap_or(line.ts, modified), c.state,
                 c.event_type, c.text, line.cwd,
                 extract_codex_agent_name(line.type, line.payload_type,
                                          line.record_message,
                                          line.payload_message))

RECURSIVE fold_lines(_, _, _)
fold_lines(m, lines, modified) ==
  IF lines = <<>> THEN m
  ELSE fold_lines(IF parses(Head(lines))
                  THEN scan_codex_record(m, codex_record(Head(lines),
                                                         modified))
                  ELSE m,
                  Tail(lines), modified)

\* scan_codex giving up a log file that holds a line that does not parse
scan_codex_gives_up(m, log) ==
  IF ~log.root_exists \/ \E i \in DOMAIN log.lines : ~parses(log.lines[i])
  THEN m
  ELSE fold_lines(m, log.lines, log.modified)

\* scan_codex on a sessions root holding at most one log file: the lines of
\* the file's tail window, in file order.
scan_codex(m, log) ==
  IF ~log.root_exists THEN m
  ELSE fold_lines(m, log.lines, log.modified)

\* normalize_source_name: the aliases of a source, whatever their case and
\* the white space around them; any other name is returned as it came
normalize_source_name(source) ==
  LET normalized == to_lowercase(trim(source))
  IN IF normalized \in {"claude", "claude code", "claude-code", "claudecode"}
     THEN "claude"
     ELSE IF normalized \in {"opencode", "open", "open-code", "open_code"}
     THEN "opencode"
     ELSE IF normalized = "codex" THEN "codex"
     ELSE source

\* ------------------------------------------------------------------------
\* Aging policy (desktop_monitor_tick, the closure over the registry)
\* ------------------------------------------------------------------------
\* A variant with a slip: the idle threshold is inclusive.
age_agent_inclusive(a, now_ms) ==
  LET silence == now_ms - a.last_ts_ms
      a1 == IF a.state \in {"running", "thinking", "waiting"}
               /\ silence >= IDLE_AFTER_MS
            THEN [a EXCEPT !.state = "idle",
                           !.last_text = IF @ = "Thinking" THEN "Idle" ELSE @]
            ELSE a
  IN IF a1.state = "idle" /\ silence > DONE_AFTER_MS
     THEN [a1 EXCEPT !.state = "done",
                     !.last_text = IF @ \in {None, "Idle", "Thinking"}
                                   THEN "No recent activity" ELSE @]
     ELSE a1

\* A variant that applies one rule per poll: the second only to a record
\* that the first has not just made idle.
age_agent_one_rule(a, now_ms) ==
  LET silence == now_ms - a.last_ts_ms
  IN IF a.state \in {"running", "thinking", "waiting"}
        /\ silence > IDLE_AFTER_MS
     THEN [a EXCEPT !.state = "idle",
                    !.last_text = IF @ = "Thinking" THEN "Idle" ELSE @]
     ELSE IF a.state = "idle" /\ silence > DONE_AFTER_MS
     THEN [a EXCEPT !.state = "done",
                    !.last_text = IF @ \in {None, "Idle", "Thinking"}
                                  THEN "No recent activity" ELSE @]
     ELSE a

\* A variant that stamps the record it ages with the instant of the poll.
age_agent_restamps(a, now_ms) ==
  LET silence == now_ms - a.last_ts_ms
      a1 == IF a.state \in {"running", "thinking", "waiting"}
               /\ silence > IDLE_AFTER_MS
            THEN [a EXCEPT !.state = "idle", !.last_ts_ms = now_ms,
                           !.last_text = IF @ = "Thinking" THEN "Idle" ELSE @]
            ELSE a
  IN IF a1.state = "idle" /\ silence > DONE_AFTER_MS
     THEN [a1 EXCEPT !.state = "done",
                     !.last_text = IF @ \in {None, "Idle", "Thinking"}
                                   THEN "No recent activity" ELSE @]
     ELSE a1

\* A variant that names the state of the first rule stale.
age_agent_stale(a, now_ms) ==
  LET silence == now_ms - a.last_ts_ms
      a1 == IF a.state \in {"running", "thinking", "waiting"}
               /\ silence > IDLE_AFTER_MS
            THEN [a EXCEPT !.state = "stale",
                           !.last_text = IF @ = "Thinking" THEN "Idle" ELSE @]
            ELSE a
  IN IF a1.state = "stale" /\ silence > DONE_AFTER_MS
     THEN [a1 EXCEPT !.state = "done",
                     !.last_text = IF @ \in {None, "Idle", "Thinking"}
                                   THEN "No recent activity" ELSE @]
     ELSE a1

age_agent(a, now_ms) ==
  LET silence == now_ms - a.last_ts_ms
      a1 == IF a.state \in {"running", "thinking", "waiting"}
               /\ silence > IDLE_AFTER_MS
            THEN [a EXCEPT !.state = "idle",
                           !.last_text = IF @ = "Thinking" THEN "Idle" ELSE @]
            ELSE a
  IN IF a1.state = "idle" /\ silence > DONE_AFTER_MS
     THEN [a1 EXCEPT !.state = "done",
                     !.last_text = IF @ \in {None, "Idle", "Thinking"}
                                   THEN "No recent activity" ELSE @]
     ELSE a1

\* ------------------------------------------------------------------------
\* Display name derivation
\* ------------------------------------------------------------------------
\* short_session: the first 8 characters
short_session(session) ==
  IF Len(session) <= 8 THEN session ELSE SubSeq(session, 1, 8)

\* The length at which normalize_agent_name cuts a name
MAX_AGENT_NAME_CHARS == 56

\* normalize_agent_name: the words of the name joined by single blanks, cut
\* to 56 characters with "..." after them; None when there is no word
normalize_agent_name(name) ==
  LET compact == trim(join(split_whitespace(name), " "))
  IN IF compact = "" THEN None
     ELSE IF Len(compact) > MAX_AGENT_NAME_CHARS
     THEN SubSeq(compact, 1, MAX_AGENT_NAME_CHARS) \o "..."
     ELSE compact

\* Path::file_name on a Unix path: the last component of the path, with
\* empty components and "." components left out; None when there is none
\* or when it is ".."
file_name(path) ==
  LET all == pieces_from(path, 1, {"/"})
      components == SelectSeq(all, LAMBDA c : c # ".")
  IN IF components = <<>> THEN None
     ELSE IF components[Len(components)] = ".." THEN None
     ELSE components[Len(components)]

repo_label(repo_path) ==
  LET trimmed == trim(repo_path)
      name == trim(IF file_name(trimmed) = None THEN trimmed
                   ELSE file_name(trimmed))
  IN IF trimmed = "" \/ name = "" THEN None ELSE name

format_agent_display_name(source, session_id, agent_name, repo_path) ==
  LET normalized_source == normalize_source_name(source)
      name == IF agent_name = None THEN None
              ELSE normalize_agent_name(agent_name)
      label == IF repo_path = None THEN None ELSE repo_label(repo_path)
      repo == IF label = None THEN None ELSE normalize_agent_name(label)
  IN IF name # None THEN normalized_source \o ": " \o name
     ELSE IF repo # None THEN normalized_source \o ": " \o repo
     ELSE normalized_source \o ": " \o short_session(session_id)

\* ------------------------------------------------------------------------
\* Snapshot builder
\* ------------------------------------------------------------------------
MonitorAlert(kind, message, ts) ==
  [kind |-> kind, message |-> message, ts_ms |-> ts]

\* agent_view with the alert's message fixed instead of the agent's text
agent_view_fixed_message(a) ==
  [key |-> a.key,
   source |-> normalize_source_name(a.source),
   session_id |-> a.session_id,
   agent_id |-> a.session_id,
   display_name |-> format_agent_display_name(
                      a.source, a.session_id, a.agent_name, a.repo_path),
   state |-> a.state,
   last_ts_ms |-> a.last_ts_ms,
   last_text |-> a.last_text,
   repo_path |-> a.repo_path,
   files_touched |-> <<>>,
   alerts |-> IF a.state = "error"
              THEN <<MonitorAlert("error",
                                  "Error detected",
                                  a.last_ts_ms)>>
              ELSE <<>>,
   recent_events |-> a.recent_events]

\* The MonitorAgentView of a registry record that aging has been applied to
agent_view(a) ==
  [key |-> a.key,
   source |-> normalize_source_name(a.source),
   session_id |-> a.session_id,
   agent_id |-> a.session_id,
   display_name |-> format_agent_display_name(
                      a.source, a.session_id, a.agent_name, a.repo_path),
   state |-> a.state,
   last_ts_ms |-> a.last_ts_ms,
   last_text |-> a.last_text,
   repo_path |-> a.repo_path,
   files_touched |-> <<>>,
   alerts |-> IF a.state = "error"
              THEN <<MonitorAlert("error",
                                  IF a.last_text = None THEN "Error detected"
                                  ELSE a.last_text,
                                  a.last_ts_ms)>>
              ELSE <<>>,
   recent_events |-> a.recent_events]

\* apply_repo_binding with the binding taken whenever there is one
apply_repo_binding_overrides(a, bindings) ==
  IF a.key \in DOMAIN bindings
  THEN [a EXCEPT !.repo_path = bindings[a.key]]
  ELSE a

\* for agent in map.values_mut(): the user's binding fills an unset repo_path
apply_repo_binding(a, bindings) ==
  IF a.repo_path = None /\ a.key \in DOMAIN bindings
  THEN [a EXCEPT !.repo_path = bindings[a.key]]
  ELSE a

\* sorted_agents with the comparison the other way round (a against b)
sorted_agents_ascending(views) ==
  {agents \in [1..Cardinality(views) -> views] :
     /\ \A i, j \in DOMAIN agents : i # j => agents[i] # agents[j]
     /\ \A i, j \in DOMAIN agents :
          i < j => agents[i].last_ts_ms <= agents[j].last_ts_ms}

\* agents.sort_by(|a, b| b.last_ts_ms.cmp(&a.last_ts_ms)) of the values of a
\* HashMap: every arrangement of the views with last_ts_ms descending (the
\* sort is stable and the HashMap's iteration order is arbitrary).
sorted_agents(views) ==
  {agents \in [1..Cardinality(views) -> views] :
     /\ \A i, j \in DOMAIN agents : i # j => agents[i] # agents[j]
     /\ \A i, j \in DOMAIN agents :
          i < j => agents[i].last_ts_ms >= agents[j].last_ts_ms}

count(agents, states) ==
  Cardinality({i \in DOMAIN agents : agents[i].state \in states})

RECURSIVE sum_alerts(_)
sum_alerts(agents) ==
  IF agents = <<>> THEN 0
  ELSE Len(Head(agents).alerts) + sum_alerts(Tail(agents))

\* MonitorSummary with thinking agents left out of active
MonitorSummary_running_only(agents) ==
  [total |-> Len(agents),
   active |-> count(agents, {"running"}),
   waiting |-> count(agents, {"waiting"}),
   done |-> count(agents, {"done"}),
   error |-> count(agents, {"error"}),
   pr_pending |-> 0,
   alerts |-> sum_alerts(agents)]

MonitorSummary(agents) ==
  [total |-> Len(agents),
   active |-> count(agents, {"running", "thinking"}),
   waiting |-> count(agents, {"waiting"}),
   done |-> count(agents, {"done"}),
   error |-> count(agents, {"error"}),
   pr_pending |-> 0,
   alerts |-> sum_alerts(agents)]

\* ------------------------------------------------------------------------
\* Notification differ
\* ------------------------------------------------------------------------
\* A variant with a slip: every notification is titled as a done one.
MonitorNotification_one_title(agent) ==
  [title |-> "Agent done",
   message |-> agent.display_name \o " - " \o
                 (IF agent.last_text # None THEN agent.last_text
                  ELSE IF agent.state = "error" THEN "Error" ELSE "Completed"),
   kind |-> IF agent.state = "error" THEN "error" ELSE "done",
   key |-> agent.key]

MonitorNotification(agent) ==
  [title |-> IF agent.state = "error" THEN "Agent error" ELSE "Agent done",
   message |-> agent.display_name \o " - " \o
                 (IF agent.last_text # None THEN agent.last_text
                  ELSE IF agent.state = "error" THEN "Error" ELSE "Completed"),
   kind |-> IF agent.state = "error" THEN "error" ELSE "done",
   key |-> agent.key]

\* Variants of should_notify with one slip each.
\* Level-triggered: the table is not consulted.
should_notify_level(agent, lock) ==
  agent.state = "done" \/ agent.state = "error"

\* A key that the table does not hold is taken as already notified.
should_notify_known_keys(agent, lock) ==
  /\ agent.state = "done" \/ agent.state = "error"
  /\ agent.key \in DOMAIN lock
  /\ lock[agent.key] # agent.state

\* The condition of the notification loop:
\* lock.get(&agent.key) != Some(&agent.state)
should_notify(agent, lock) ==
  /\ agent.state = "done" \/ agent.state = "error"
  /\ lookup(lock, agent.key) # agent.state

\* The notifications pushed by the loop over agents i..len, in that order.
RECURSIVE notifications_from(_, _, _)
notifications_from(agents, i, lock) ==
  IF i > Len(agents) THEN <<>>
  ELSE (IF should_notify(agents[i], lock)
        THEN <<MonitorNotification(agents[i])>> ELSE <<>>)
       \o notifications_from(agents, i + 1, lock)

\* A variant with a slip: the new states are merged into the old table.
next_states_merged(agents, lock) ==
  [k \in {agents[i].key : i \in DOMAIN agents} |->
     agents[CHOOSE i \in DOMAIN agents :
              /\ agents[i].key = k
              /\ \A j \in DOMAIN agents : agents[j].key = k => j <= i].state]
  @@ lock

\* A variant with a slip: a key the table holds as done or error keeps that
\* entry while the agent is seen.
next_states_sticky(agents, lock) ==
  [k \in {agents[i].key : i \in DOMAIN agents} |->
     IF k \in DOMAIN lock /\ lock[k] \in {"done", "error"} THEN lock[k]
     ELSE agents[CHOOSE i \in DOMAIN agents :
                   /\ agents[i].key = k
                   /\ \A j \in DOMAIN agents : agents[j].key = k => j <= i].state]

\* next_states, the table that replaces *lock: key -> state of the agents
\* (HashMap::insert: a later agent with the same key would overwrite).
next_states(agents, lock) ==
  [k \in {agents[i].key : i \in DOMAIN agents} |->
     agents[CHOOSE i \in DOMAIN agents :
              /\ agents[i].key = k
              /\ \A j \in DOMAIN agents : agents[j].key = k => j <= i].state]

\* ------------------------------------------------------------------------
\* desktop_monitor_tick
\* ------------------------------------------------------------------------
\* The registry after the scanners and map.retain
scan_sources(s, store, log) ==
  LET m0 == IF s.enable_opencode THEN scan_opencode(EmptyMap, store)
            ELSE EmptyMap
      m1 == IF s.enable_codex THEN scan_codex(m0, log) ELSE m0
      kept == {k \in DOMAIN m1 :
                 normalize_source_name(m1[k].source) = "claude"
                   => s.enable_claude}
  IN [k \in kept |-> m1[k]]

\* The agent views before they are sorted
agent_views(m, bindings, now_ms) ==
  {agent_view(age_agent(apply_repo_binding(m[k], bindings), now_ms)) :
     k \in DOMAIN m}

NoPayload == [snapshot |-> None]

DisabledPayload(now_ms) ==
  [snapshot |->
     [summary |-> [total |-> 0, active |-> 0, waiting |-> 0, done |-> 0,
                   error |-> 0, pr_pending |-> 0, alerts |-> 0],
      agents |-> <<>>,
      now_ms |-> now_ms],
   notifications |-> <<>>]

\* key -> state of the agents of a snapshot, and the keys of the
\* notifications of a payload in the order they were pushed
snapshot_states(snapshot) ==
  [k \in {snapshot.agents[i].key : i \in DOMAIN snapshot.agents} |->
     snapshot.agents[CHOOSE i \in DOMAIN snapshot.agents :
                       snapshot.agents[i].key = k].state]

notification_keys(p) ==
  [j \in DOMAIN p.notifications |-> p.notifications[j].key]

NoRead == [settings |-> None]

\* The number of invocations so far, of a run that records them
snapshots_built == Len(polls) + Len(in_flight)

\* The newest observation of every key of a registry
observations_read(registry) ==
  [k \in DOMAIN registry |->
     [state_hint |-> registry[k].state, ts |-> registry[k].last_ts_ms]]

\* What an invocation that has returned is recorded with: the settings,
\* the clock and the log it read, the newest observations of the registry
\* it merged, its rank among the invocations, the number of invocations
\* that had returned when it was made, the table it found under the lock,
\* and the states and the notification keys of the payload it returned.
PollRecord(read, begun, found, returned) ==
  [enabled |-> read.settings.enabled,
   now |-> read.now_ms,
   log |-> read.log,
   read |-> observations_read(read.registry),
   built |-> begun.built,
   after |-> begun.after,
   found |-> found,
   states |-> snapshot_states(returned.snapshot),
   notified |-> notification_keys(returned)]

\* The first part of desktop_monitor_tick (lib.rs:464-587), which holds no
\* lock: the invocation reads the settings and, when the monitor is
\* disabled, returns the empty payload at once; otherwise it scans the
\* sources, ages and sorts the agents and builds its snapshot.  Nothing
\* keeps an invocation from starting while another is under way; the model
\* lets MaxInFlight of them be under way at once.  recorded is the number
\* of invocations of the run that polls records (0: none of them).
BuildSnapshot(recorded) ==
  /\ Len(in_flight) < MaxInFlight
  /\ recorded = 0 \/ snapshots_built < recorded
  /\ LET registry == IF settings.enabled
                     THEN scan_sources(settings, opencode_store, codex_log)
                     ELSE EmptyMap
         read == [settings |-> settings, registry |-> registry,
                  now_ms |-> now, log |-> codex_log]
         begun == [built |-> IF recorded = 0 THEN 0 ELSE snapshots_built + 1,
                   after |-> Len(polls)]
     IN IF ~settings.enabled
        THEN /\ payload' = DisabledPayload(now)
             /\ table_before' = previous_states
             /\ poll_read' = read
             /\ polls' = IF recorded = 0 THEN polls
                         ELSE Append(polls,
                                     PollRecord(read, begun, previous_states,
                                                DisabledPayload(now)))
             /\ UNCHANGED in_flight
        ELSE /\ \E agents \in sorted_agents(
                                agent_views(registry, repo_bindings, now)) :
                  in_flight' = Append(in_flight,
                                      [read |-> read, agents |-> agents,
                                       begun |-> begun])
             /\ payload' = NoPayload
             /\ table_before' = EmptyMap
             /\ poll_read' = NoRead
             /\ UNCHANGED polls
  /\ UNCHANGED <<settings, repo_bindings, now, opencode_store, codex_log,
                 previous_states>>
  /\ UNCHANGED reg_vars
  /\ UNCHANGED fn_vars

\* seq without its i-th element
without(seq, i) == SubSeq(seq, 1, i - 1) \o SubSeq(seq, i + 1, Len(seq))

\* ReplaceTable comparing with the table as the poll that returned before
\* found it, as a comparison made outside the lock may find it
ReplaceTable_compares_unlocked(i, recorded) ==
  /\ i \in DOMAIN in_flight
  /\ LET mine == in_flight[i]
         stale == IF polls = <<>> THEN EmptyMap ELSE polls[Len(polls)].found
         returned ==
           [snapshot |-> [summary |-> MonitorSummary(mine.agents),
                          agents |-> mine.agents,
                          now_ms |-> mine.read.now_ms],
            notifications |-> notifications_from(mine.agents, 1, stale)]
     IN /\ payload' = returned
        /\ previous_states' = next_states(mine.agents, previous_states)
        /\ table_before' = previous_states
        /\ poll_read' = mine.read
        /\ polls' = IF recorded = 0 THEN polls
                    ELSE Append(polls, PollRecord(mine.read, mine.begun,
                                                  previous_states, returned))
  /\ in_flight' = without(in_flight, i)
  /\ UNCHANGED <<settings, repo_bindings, now, opencode_store, codex_log>>
  /\ UNCHANGED reg_vars
  /\ UNCHANGED fn_vars

\* The second part of desktop_monitor_tick (lib.rs:589-631), one step under
\* the lock on previous_states: the i-th of the invocations under way
\* compares its agents with the table, replaces the table by the states of
\* its snapshot and returns.
ReplaceTable(i, recorded) ==
  /\ i \in DOMAIN in_flight
  /\ LET mine == in_flight[i]
         returned ==
           [snapshot |-> [summary |-> MonitorSummary(mine.agents),
                          agents |-> mine.agents,
                          now_ms |-> mine.read.now_ms],
            notifications |->
              notifications_from(mine.agents, 1, previous_states)]
     IN /\ payload' = returned
        /\ previous_states' = next_states(mine.agents, previous_states)
        /\ table_before' = previous_states
        /\ poll_read' = mine.read
        /\ polls' = IF recorded = 0 THEN polls
                    ELSE Append(polls, PollRecord(mine.read, mine.begun,
                                                  previous_states, returned))
  /\ in_flight' = without(in_flight, i)
  /\ UNCHANGED <<settings, repo_bindings, now, opencode_store, codex_log>>
  /\ UNCHANGED reg_vars
  /\ UNCHANGED fn_vars

\* A step of desktop_monitor_tick: an invocation starts, or one of the
\* invocations under way goes on to its second part.
desktop_monitor_tick(recorded) ==
  \/ BuildSnapshot(recorded)
  \/ \E i \in 1..MaxInFlight : ReplaceTable(i, recorded)

\* ------------------------------------------------------------------------
\* Specification Spec: polls of the monitor by a caller that awaits the
\* return of a poll before it invokes the next (as the specification asks
\* of the caller), while the clock advances, the monitored tools write to
\* their stores and the user changes the settings and binds a repository
\* to a session, between the polls and between the two parts of a poll.
\* ------------------------------------------------------------------------
\* The instants the clock takes: a start, and the instants at which the
\* silence of a record written at the start stands at, and just past, each
\* aging threshold.
ClockInstants ==
  {0, IDLE_AFTER_MS, IDLE_AFTER_MS + 1, DONE_AFTER_MS, DONE_AFTER_MS + 1}

\* The instants at which Codex is at work: the start, and the instant at
\* which what was written at the start has just gone idle.
ActiveInstants == {0, IDLE_AFTER_MS + 1}

\* MonitorSettings::default(), and the same with the monitor switched off
DefaultSettings ==
  [enabled |-> TRUE, enable_claude |-> TRUE, enable_opencode |-> TRUE,
   enable_codex |-> TRUE]

SettingsChoices ==
  {DefaultSettings, [DefaultSettings EXCEPT !.enabled = FALSE]}

\* What the OpenCode tool writes for its session s1 at instant t
OpencodeParts(t) ==
  {PartFile(NestedId("s1"), "reasoning", None, None, Some(t), {}, None, None, t),
   PartFile(NestedId("s1"), "tool", "build", "completed", {}, Some(t), None, None, t)}

\* What Codex appends to the log of its session c1 at instant t
CodexLines(t) ==
  {CodexLine("c1", "event_msg", "user_message", Some(t),
             "/repo/app", None, "fix bug", None),
   CodexLine("c1", "event_msg", "error", Some(t), None, None, None, None)}

\* The last n elements of a sequence
last_n(seq, n) ==
  IF Len(seq) > n THEN SubSeq(seq, Len(seq) - n + 1, Len(seq)) ELSE seq

RegUnused ==
  /\ map = EmptyMap
  /\ incoming = NoObservation
  /\ repeated = FALSE
  /\ seen = EmptyMap
  /\ nfold = 0
  /\ batch = {}
  /\ todo = {}

Init ==
  /\ settings = DefaultSettings
  /\ repo_bindings = EmptyMap
  /\ now = 0
  /\ opencode_store =
       [message_root_exists |-> TRUE, part_root_exists |-> TRUE,
        messages |-> <<>>, parts |-> <<>>,
        session_repo |-> EmptyMap, session_name |-> EmptyMap, db |-> NoDb]
  /\ codex_log = [root_exists |-> TRUE, lines |-> <<>>, modified |-> 0]
  /\ previous_states = EmptyMap
  /\ payload = NoPayload
  /\ table_before = EmptyMap
  /\ poll_read = NoRead
  /\ polls = <<>>
  /\ in_flight = <<>>
  /\ RegUnused
  /\ FnUnused

\* A step of the environment returns nothing to the monitor's caller.
NoPoll ==
  /\ payload' = NoPayload
  /\ table_before' = EmptyMap
  /\ poll_read' = NoRead
  /\ UNCHANGED <<previous_states, polls, in_flight>>
  /\ UNCHANGED reg_vars
  /\ UNCHANGED fn_vars

\* A poll of the monitor by a caller that awaits its return: the front end
\* invokes desktop_monitor_tick when no invocation is under way, or the
\* invocation under way goes on to its second part.
Poll ==
  \/ in_flight = <<>> /\ BuildSnapshot(0)
  \/ ReplaceTable(1, 0)

\* The clock advances to a later one of the given instants.
Tick(instants) ==
  /\ \E t \in instants : t > now /\ now' = t
  /\ NoPoll
  /\ UNCHANGED <<settings, repo_bindings, opencode_store, codex_log>>

desktop_set_monitor_settings(s) ==
  /\ s # settings
  /\ settings' = s
  /\ NoPoll
  /\ UNCHANGED <<repo_bindings, now, opencode_store, codex_log>>

\* desktop_bind_repo (lib.rs:291-299): the user binds a repository to a
\* session; the binding is inserted under "source:session_id" into the
\* bindings read from the bindings file, which is written back.
desktop_bind_repo(source, session_id, repo_path) ==
  /\ repo_bindings' =
       ((source \o ":" \o session_id) :> repo_path) @@ repo_bindings
  /\ repo_bindings' # repo_bindings
  /\ NoPoll
  /\ UNCHANGED <<settings, now, opencode_store, codex_log>>

\* The lists collect_files may return for a tree once file f has been
\* written to it, files being what it returned before: f comes before the
\* files modified earlier, and anywhere among the files modified at the
\* same instant (files.sort_by is stable, so files of one modification
\* time stay in the order in which the directory is walked, lib.rs:1493);
\* the files past the cap are not read.
files_after_write(files, f, max_files) ==
  LET same == {i \in DOMAIN files : files[i].modified = f.modified}
  IN {truncate(SubSeq(files, 1, k) \o <<f>> \o SubSeq(files, k + 1, Len(files)),
               max_files) : k \in 0..Cardinality(same)}

\* OpenCode writes its part files during the first instant.
OpencodeWritesPart(f) ==
  /\ now = 0
  /\ \E parts \in files_after_write(opencode_store.parts, f, MaxFiles) :
       opencode_store' = [opencode_store EXCEPT !.parts = parts]
  /\ NoPoll
  /\ UNCHANGED <<settings, repo_bindings, now, codex_log>>

OpencodeRemovesSession ==
  /\ opencode_store.parts # <<>>
  /\ opencode_store' = [opencode_store EXCEPT !.parts = <<>>]
  /\ NoPoll
  /\ UNCHANGED <<settings, repo_bindings, now, codex_log>>

CodexAppendsLine(l) ==
  /\ now \in ActiveInstants
  /\ codex_log' = [codex_log EXCEPT !.lines = last_n(@ \o <<l>>, MaxLines),
                                    !.modified = now]
  /\ NoPoll
  /\ UNCHANGED <<settings, repo_bindings, now, opencode_store>>

CodexRemovesLog ==
  /\ codex_log.lines # <<>>
  /\ codex_log' = [codex_log EXCEPT !.lines = <<>>, !.modified = 0]
  /\ NoPoll
  /\ UNCHANGED <<settings, repo_bindings, now, opencode_store>>

Next ==
  \/ Poll
  \/ Tick(ClockInstants)
  \/ \E s \in SettingsChoices : desktop_set_monitor_settings(s)
  \/ \E f \in OpencodeParts(now) : OpencodeWritesPart(f)
  \/ OpencodeRemovesSession
  \/ \E l \in CodexLines(now) : CodexAppendsLine(l)
  \/ CodexRemovesLog
  \/ desktop_bind_repo("opencode", "s1", "/repo/web")

Spec == Init /\ [][Next]_vars

\* A poll has just returned; it was made with the monitor enabled (the
\* settings are as that poll read them).
Polled == "notifications" \in DOMAIN payload

PolledEnabled == Polled /\ poll_read.settings.enabled

\* C1: in every poll with the monitor enabled, a notification is returned
\* for an agent if and only if the agent's state in the new snapshot is done
\* or error and differs from the state the table left by the prior poll
\* records for the agent's key, a key absent from the table counting as
\* differing; every notification is for an agent of the snapshot, and no
\* agent has two.
C1_NotifiedIffFinishedAndChanged ==
  PolledEnabled =>
    LET agents == payload.snapshot.agents
        notes == payload.notifications
    IN /\ \A i \in DOMAIN agents :
            (\E j \in DOMAIN notes : notes[j].key = agents[i].key)
              <=> /\ agents[i].state \in {"done", "error"}
                  /\ \/ agents[i].key \notin DOMAIN table_before
                     \/ table_before[agents[i].key] # agents[i].state
       /\ \A j \in DOMAIN notes :
            \E i \in DOMAIN agents : agents[i].key = notes[j].key
       /\ \A j1, j2 \in DOMAIN notes :
            notes[j1].key = notes[j2].key => j1 = j2

\* An enabled poll returned two agents that are both done: one whose key
\* the table did not hold, notified, and one the table already held as
\* done, not notified.
C1_Witness ==
  /\ PolledEnabled
  /\ \E i, j \in DOMAIN payload.snapshot.agents :
       LET a == payload.snapshot.agents[i]
           b == payload.snapshot.agents[j]
       IN /\ a.state = "done" /\ a.key \notin DOMAIN table_before
          /\ \E n \in DOMAIN payload.notifications :
               payload.notifications[n].key = a.key
          /\ b.state = "done" /\ b.key \in DOMAIN table_before
          /\ table_before[b.key] = "done"
          /\ \A n \in DOMAIN payload.notifications :
               payload.notifications[n].key # b.key

\* C4, as the specification states it: at the end of every poll the table
\* equals exactly the key -> state map of the agents in the snapshot that
\* poll returned.
C4_TableIsSnapshotAfterEveryPoll ==
  Polled => previous_states = snapshot_states(payload.snapshot)

\* C4, as the program behaves: at the end of every poll made with the
\* monitor enabled the table equals exactly the key -> state map of the
\* agents in the snapshot that poll returned (nothing of the old table is
\* kept, a key absent from the poll is no longer in the table); a poll made
\* with the monitor disabled returns an empty snapshot and leaves the table
\* as it found it.
C4_TableIsSnapshotAfterEnabledPoll ==
  /\ PolledEnabled => previous_states = snapshot_states(payload.snapshot)
  /\ Polled /\ ~poll_read.settings.enabled
       => /\ previous_states = table_before
          /\ payload.snapshot.agents = <<>>

\* An enabled poll found a key in the table that it did not see: the key is
\* gone from the table, which holds the agents the poll did see.
C4_Witness ==
  /\ PolledEnabled
  /\ payload.snapshot.agents # <<>>
  /\ \E k \in DOMAIN table_before : k \notin DOMAIN previous_states
  /\ previous_states = snapshot_states(payload.snapshot)

\* C10: aging, first rule. An agent whose merged state is running, thinking
\* or waiting and whose silence (now minus last_ts_ms) is greater than
\* 20,000 ms and at most 90,000 ms is reported idle, with a text that is
\* exactly "Thinking" replaced by "Idle" and any other text kept; at a
\* silence of 20,000 ms or less the state and the text are reported
\* unchanged. The merged record is the registry's record for the agent's
\* key, the stores being as the poll read them.
C10_AgingFirstRule ==
  PolledEnabled =>
    LET registry == poll_read.registry
    IN \A i \in DOMAIN payload.snapshot.agents :
         LET agent == payload.snapshot.agents[i]
             merged == registry[agent.key]
             silence == payload.snapshot.now_ms - merged.last_ts_ms
         IN /\ ( /\ merged.state \in {"running", "thinking", "waiting"}
                 /\ silence > 20000
                 /\ silence <= 90000 )
                 => /\ agent.state = "idle"
                    /\ agent.last_text = IF merged.last_text = "Thinking"
                                         THEN "Idle" ELSE merged.last_text
            /\ silence <= 20000
                 => /\ agent.state = merged.state
                    /\ agent.last_text = merged.last_text

\* A poll reported idle, with the text "Idle", an agent whose merged state
\* is thinking with the text "Thinking" and whose silence is 20,001 ms,
\* next to an agent silent for less that it reported as merged.
C10_Witness ==
  /\ PolledEnabled
  /\ LET registry == poll_read.registry
     IN \E i, j \in DOMAIN payload.snapshot.agents :
          LET a == payload.snapshot.agents[i]
              b == payload.snapshot.agents[j]
          IN /\ registry[a.key].state = "thinking"
             /\ registry[a.key].last_text = "Thinking"
             /\ payload.snapshot.now_ms - a.last_ts_ms = 20001
             /\ a.state = "idle" /\ a.last_text = "Idle"
             /\ registry[b.key].state = "waiting"
             /\ payload.snapshot.now_ms - b.last_ts_ms <= 20000
             /\ b.state = "waiting"

\* The positions of a snapshot's agent list whose agent is in one of the
\* given states, and the positions of all alerts of the list
agents_in(snapshot, states) ==
  {i \in DOMAIN snapshot.agents : snapshot.agents[i].state \in states}

alert_positions(snapshot) ==
  {<<i, j>> \in (DOMAIN snapshot.agents) \X (1..1) :
     j \in DOMAIN snapshot.agents[i].alerts}

\* C17: in every snapshot the summary counters match the agent list: total
\* is the number of agents, active the number of agents in running or
\* thinking, waiting, done and error the numbers of agents in those states,
\* and alerts the sum of the lengths of the agents' alert lists.
C17_SummaryMatchesAgents ==
  Polled =>
    LET snapshot == payload.snapshot
        summary == snapshot.summary
    IN /\ summary.total = Len(snapshot.agents)
       /\ summary.active = Cardinality(agents_in(snapshot, {"running"}))
                           + Cardinality(agents_in(snapshot, {"thinking"}))
       /\ summary.waiting = Cardinality(agents_in(snapshot, {"waiting"}))
       /\ summary.done = Cardinality(agents_in(snapshot, {"done"}))
       /\ summary.error = Cardinality(agents_in(snapshot, {"error"}))
       /\ \A i \in DOMAIN snapshot.agents : Len(snapshot.agents[i].alerts) <= 1
       /\ summary.alerts = Cardinality(alert_positions(snapshot))

\* a snapshot of two agents, one thinking and one in error with its alert
C17_Witness ==
  /\ PolledEnabled
  /\ payload.snapshot.summary.total = 2
  /\ payload.snapshot.summary.active = 1
  /\ payload.snapshot.summary.error = 1
  /\ payload.snapshot.summary.alerts = 1
  /\ agents_in(payload.snapshot, {"thinking"}) # {}

\* C18: in every snapshot each agent whose reported state is error carries
\* exactly one alert, of kind error, whose message is the agent's current
\* text and whose timestamp is the agent's last_ts_ms; every agent in any
\* other state carries no alert.
C18_OneAlertPerErrorAgent ==
  Polled =>
    \A i \in DOMAIN payload.snapshot.agents :
      LET agent == payload.snapshot.agents[i]
      IN IF agent.state = "error"
         THEN /\ Len(agent.alerts) = 1
              /\ agent.alerts[1].kind = "error"
              /\ agent.last_text # None
              /\ agent.alerts[1].message = agent.last_text
              /\ agent.alerts[1].ts_ms = agent.last_ts_ms
         ELSE agent.alerts = <<>>

\* a snapshot with an agent in error beside an agent that is not
C18_Witness ==
  /\ PolledEnabled
  /\ \E i, j \in DOMAIN payload.snapshot.agents :
       /\ payload.snapshot.agents[i].state = "error"
       /\ payload.snapshot.agents[i].alerts
            = <<MonitorAlert("error", "Codex error",
                             payload.snapshot.agents[i].last_ts_ms)>>
       /\ payload.snapshot.agents[j].state = "done"
       /\ payload.snapshot.agents[j].alerts = <<>>

\* C19: the agent list of every snapshot is ordered by last_ts_ms
\* descending: of any two adjacent agents the earlier one's last_ts_ms is >=
\* the later one's.
C19_AgentsNewestFirst ==
  Polled =>
    \A i \in DOMAIN payload.snapshot.agents :
      i + 1 \in DOMAIN payload.snapshot.agents =>
        payload.snapshot.agents[i].last_ts_ms
          >= payload.snapshot.agents[i + 1].last_ts_ms

\* a snapshot of two agents last seen at different instants
C19_Witness ==
  /\ PolledEnabled
  /\ Len(payload.snapshot.agents) = 2
  /\ payload.snapshot.agents[1].last_ts_ms
       > payload.snapshot.agents[2].last_ts_ms

\* C37: the notifications of a poll are consistent with the snapshot of the
\* same poll: the key of each is the key of exactly one agent of the
\* snapshot, that agent is done or in error, the notification's kind is
\* that state and its title "Agent done" for done and "Agent error" for
\* error; no poll returns two notifications with one key.
C37_NotificationsMatchSnapshot ==
  PolledEnabled =>
    LET agents == payload.snapshot.agents
        notes == payload.notifications
    IN /\ \A j \in DOMAIN notes :
            /\ Cardinality({i \in DOMAIN agents :
                              agents[i].key = notes[j].key}) = 1
            /\ \A i \in DOMAIN agents :
                 agents[i].key = notes[j].key
                   => /\ agents[i].state \in {"done", "error"}
                      /\ notes[j].kind = agents[i].state
                      /\ notes[j].title = (IF agents[i].state = "done"
                                           THEN "Agent done"
                                           ELSE "Agent error")
       /\ \A j1, j2 \in DOMAIN notes :
            notes[j1].key = notes[j2].key => j1 = j2

\* a poll returned two notifications, one for a done agent and one for an
\* agent in error, each titled after its state
C37_Witness ==
  /\ PolledEnabled
  /\ Len(payload.notifications) = 2
  /\ \E j1, j2 \in DOMAIN payload.notifications :
       /\ payload.notifications[j1].kind = "done"
       /\ payload.notifications[j1].title = "Agent done"
       /\ payload.notifications[j2].kind = "error"
       /\ payload.notifications[j2].title = "Agent error"
       /\ payload.notifications[j1].key # payload.notifications[j2].key

\* The six states of an agent of a snapshot
AgentStates == {"running", "thinking", "waiting", "idle", "done", "error"}

\* C38: every agent of every snapshot is in exactly one of the six states
\* running, thinking, waiting, idle, done, error, so that the summary's
\* total is active + waiting + done + error + the number of idle agents,
\* and the summary's alerts equal its error counter.
C38_SixStates ==
  Polled =>
    LET snapshot == payload.snapshot
        summary == snapshot.summary
    IN /\ \A i \in DOMAIN snapshot.agents :
            snapshot.agents[i].state \in AgentStates
       /\ summary.total = summary.active + summary.waiting + summary.done
                          + summary.error
                          + Cardinality(agents_in(snapshot, {"idle"}))
       /\ summary.alerts = summary.error

\* a snapshot of an idle agent and an agent in error
C38_Witness ==
  /\ PolledEnabled
  /\ payload.snapshot.summary.total = 2
  /\ Cardinality(agents_in(payload.snapshot, {"idle"})) = 1
  /\ payload.snapshot.summary.error = 1
  /\ payload.snapshot.summary.alerts = 1
  /\ payload.snapshot.summary.active = 0

\* ------------------------------------------------------------------------
\* Specification SpecEdges: a run of at most MaxEdgePolls invocations of
\* desktop_monitor_tick, two of them under way at once at most, on one
\* Codex session whose log is appended to and removed, with the user
\* switching the monitor off and on; polls records every invocation that
\* has returned.
\* ------------------------------------------------------------------------
\* What Codex appends to the log of its session c1 in SpecEdges
EdgeLines(t) ==
  {CodexLine("c1", "event_msg", "task_started", Some(t),
             None, None, None, None),
   CodexLine("c1", "event_msg", "task_complete", Some(t),
             None, None, None, None),
   CodexLine("c1", "event_msg", "error", Some(t), None, None, None, None)}

\* A poll of the monitor in a run that records MaxEdgePolls of them
ObservedPoll == desktop_monitor_tick(MaxEdgePolls)

NextEdges ==
  \/ ObservedPoll
  \/ \E s \in SettingsChoices : desktop_set_monitor_settings(s)
  \/ \E l \in EdgeLines(now) : CodexAppendsLine(l)
  \/ CodexRemovesLog

SpecEdges == Init /\ [][NextEdges]_vars

\* polls is the sequence of the polls in the order in which they returned,
\* which for the polls made with the monitor enabled is the order in which
\* they took the lock and replaced the table.  The rank of a poll is its
\* place in the order in which the polls were invoked.  The two orders are
\* the same when no two invocations overlapped.
HasReturned(n) == \E i \in DOMAIN polls : polls[i].built = n

returned_at(n) == CHOOSE i \in DOMAIN polls : polls[i].built = n

returned_poll(n) == polls[returned_at(n)]

\* The polls of the ranks n to m have returned, and each of them had
\* returned when the next was invoked: they were made in turn, none of them
\* overlapping the next.
InTurn(n, m) ==
  \A r \in n..m :
    /\ HasReturned(r)
    /\ r < m => HasReturned(r + 1) /\ returned_at(r) <= returned_poll(r + 1).after

\* Poll p saw key k in the given state; poll p did not see key k; the number
\* of notifications poll p returned for key k.
Sees(p, k, state) == k \in DOMAIN p.states /\ p.states[k] = state

Absent(p, k) == k \notin DOMAIN p.states

Notified(p, k) == Cardinality({j \in DOMAIN p.notified : p.notified[j] = k})

\* The polls of the ranks n, n+1, ..., n+Len(states)-1 were made in turn and
\* saw key k in the given states.
SeesInTurn(n, k, states) ==
  /\ InTurn(n, n + Len(states) - 1)
  /\ \A d \in DOMAIN states : Sees(returned_poll(n + d - 1), k, states[d])

\* C2, as the specification states it: edge triggering over a sequence of
\* polls made in turn. A poll that finds key k running in the table and
\* sees k done returns exactly one notification for k, the poll that
\* follows it and still sees k done returns none, and the polls that then
\* see k in error and afterwards done again return two notifications for k
\* in total.
C2_EdgeTriggeredSequence ==
  \A n \in 1..MaxEdgePolls : \A k \in {"codex:c1"} :
    LET from_running ==
          /\ HasReturned(n)
          /\ Sees([states |-> returned_poll(n).found], k, "running")
    IN /\ (from_running /\ SeesInTurn(n, k, <<"done">>))
            => Notified(returned_poll(n), k) = 1
       /\ (from_running /\ SeesInTurn(n, k, <<"done", "done">>))
            => Notified(returned_poll(n + 1), k) = 0
       /\ (from_running
             /\ SeesInTurn(n, k, <<"done", "done", "error", "done">>))
            => Notified(returned_poll(n + 2), k)
                 + Notified(returned_poll(n + 3), k) = 2

\* In the order in which the polls returned: poll i saw key k done, the
\* polls after it and before poll j did not see k (there is at least one),
\* and poll j saw k done again.
Reappears(i, j, k) ==
  /\ i + 1 < j
  /\ j <= Len(polls)
  /\ Sees(polls[i], k, "done")
  /\ \A m \in (i + 1)..(j - 1) : Absent(polls[m], k)
  /\ Sees(polls[j], k, "done")

\* C3, as the specification states it: a session whose key is absent from
\* one poll and reappears in a later poll in the done state it had when it
\* was last seen causes no second notification.
C3_ReappearingDoneIsSilent ==
  \A i, j \in DOMAIN polls : \A k \in DOMAIN polls[i].states :
    Reappears(i, j, k) => Notified(polls[j], k) = 0

\* C3, as the program behaves, of the polls in the order in which they
\* returned: a session whose key is absent from a poll made with the
\* monitor enabled and reappears in a later poll in the done state it had
\* when it was last seen is notified again, exactly once, in the poll in
\* which it reappears (the table forgot the key); it is not notified again
\* when every poll in between was made with the monitor disabled (those
\* polls leave the table as it was).
C3_ReappearingDoneRenotifies ==
  \A i, j \in DOMAIN polls : \A k \in DOMAIN polls[i].states :
    Reappears(i, j, k)
      => Notified(polls[j], k) =
           IF \E m \in (i + 1)..(j - 1) : polls[m].enabled THEN 1 ELSE 0

\* A done session was notified, an enabled poll did not see it, and the
\* poll in which it reappeared, still done, notified it a second time; the
\* three polls were made in turn.
C3_Witness ==
  \E i, j \in DOMAIN polls : \E k \in DOMAIN polls[i].states :
    /\ Reappears(i, j, k)
    /\ \E m \in (i + 1)..(j - 1) : polls[m].enabled
    /\ Notified(polls[i], k) = 1
    /\ Notified(polls[j], k) = 1
    /\ \A m \in i..j : polls[m].built = m
    /\ InTurn(i, j)

\* Why C3 speaks of the order in which the polls returned: of three polls
\* made in turn, the first saw the session done, the second, enabled, did
\* not see it, and the third saw it done again and was silent, because a
\* poll invoked before the three, which had seen the session done, replaced
\* the table between the second and the third.
C3_StalePollRestoresKey ==
  \E n \in 1..MaxEdgePolls :
    /\ SeesInTurn(n, "codex:c1", <<"done">>)
    /\ InTurn(n, n + 2)
    /\ returned_poll(n + 1).enabled
    /\ Absent(returned_poll(n + 1), "codex:c1")
    /\ Sees(returned_poll(n + 2), "codex:c1", "done")
    /\ Notified(returned_poll(n + 2), "codex:c1") = 0

\* The polls of the ranks n to m were made in turn; the first, made with
\* the monitor enabled, saw key k done; those between the first and the
\* last were made with the monitor disabled (there is at least one); the
\* last, enabled again, saw k still done.
StillDoneWhenReenabled(n, m, k) ==
  /\ n + 1 < m
  /\ InTurn(n, m)
  /\ returned_poll(n).enabled
  /\ Sees(returned_poll(n), k, "done")
  /\ \A r \in (n + 1)..(m - 1) : ~returned_poll(r).enabled
  /\ returned_poll(m).enabled
  /\ Sees(returned_poll(m), k, "done")

\* C33, as the specification states it: a poll made while the monitor is
\* disabled returns an empty snapshot with every counter zero and no
\* notification, and leaves previous_states as it found it; so an agent
\* seen done by the poll before the monitor was disabled is not notified
\* by the poll that follows the disabled ones, with the monitor enabled
\* again, and sees the agent still done.
C33_DisabledPollKeepsTable ==
  /\ (Polled /\ ~poll_read.settings.enabled) =>
       /\ payload.snapshot.agents = <<>>
       /\ \A counter \in DOMAIN payload.snapshot.summary :
            payload.snapshot.summary[counter] = 0
       /\ payload.notifications = <<>>
       /\ previous_states = table_before
  /\ \A n, m \in 1..MaxEdgePolls : \A k \in {"codex:c1"} :
       StillDoneWhenReenabled(n, m, k)
         => /\ \A r \in (n + 1)..(m - 1) :
                 /\ returned_poll(r).states = EmptyMap
                 /\ returned_poll(r).notified = <<>>
            /\ Notified(returned_poll(m), k) = 0

\* ------------------------------------------------------------------------
\* Specification SpecReturn: a run of at most MaxTimedPolls invocations of
\* desktop_monitor_tick, two of them under way at once at most, on one
\* Codex session whose log is appended to while the clock advances; polls
\* records, beside what every poll returned, the instant it read the clock
\* and the newest observation it read for every key.
\* ------------------------------------------------------------------------
\* A poll of the monitor in a run that records MaxTimedPolls of them
TimedPoll == desktop_monitor_tick(MaxTimedPolls)

NextReturn ==
  \/ TimedPoll
  \/ Tick(ClockInstants)
  \/ \E l \in EdgeLines(now) : CodexAppendsLine(l)

SpecReturn == Init /\ [][NextReturn]_vars

ActiveStates == {"running", "thinking", "waiting"}

TerminalStates == {"done", "error"}

\* Poll i reported key k done or error, and the later poll j read for k an
\* observation newer than the one poll i read, with an active state hint.
ReadsNewerActive(i, j, k) ==
  /\ i < j
  /\ j <= Len(polls)
  /\ k \in DOMAIN polls[i].states
  /\ polls[i].states[k] \in TerminalStates
  /\ k \in DOMAIN polls[j].read
  /\ polls[j].read[k].state_hint \in ActiveStates
  /\ polls[j].read[k].ts > polls[i].read[k].ts

\* Poll j reported key k in an active state and poll l is the first poll
\* after it that reported k done or error.
ReturnsToTerminal(j, l, k) ==
  /\ j < l
  /\ l <= Len(polls)
  /\ k \in DOMAIN polls[j].states
  /\ polls[j].states[k] \in ActiveStates
  /\ k \in DOMAIN polls[l].states
  /\ polls[l].states[k] \in TerminalStates
  /\ \A m \in (j + 1)..(l - 1) :
       k \in DOMAIN polls[m].states => polls[m].states[k] \notin TerminalStates

\* C26, as the specification states it: done and error are not permanently
\* terminal: an agent reported done or error in one poll is reported in an
\* active state in a later poll when that poll reads a newer observation
\* with that state hint for its key, and a later return to done or error
\* notifies again.
C26_NewerObservationReactivates ==
  \A i, j, l \in DOMAIN polls : \A k \in DOMAIN polls[i].states :
    /\ ReadsNewerActive(i, j, k)
         => Sees(polls[j], k, polls[j].read[k].state_hint)
    /\ (ReadsNewerActive(i, j, k) /\ ReturnsToTerminal(j, l, k))
         => Notified(polls[l], k) = 1

\* C26, as the program behaves, of the polls in the order in which they
\* returned: an agent reported done or error in one poll is reported in an
\* active state in a later poll when that poll reads a newer observation
\* with that state hint for its key and the observation is at most 20,000
\* ms old when that poll reads the clock (an older one is reported idle, or
\* done when it is more than 90,000 ms old); the first poll after it that
\* reports the agent done or error notifies again.
C26_FreshObservationReactivates ==
  \A i, j, l \in DOMAIN polls : \A k \in DOMAIN polls[i].states :
    /\ ReadsNewerActive(i, j, k)
         => LET silence == polls[j].now - polls[j].read[k].ts
            IN Sees(polls[j], k,
                    IF silence <= IDLE_AFTER_MS
                    THEN polls[j].read[k].state_hint
                    ELSE IF silence <= DONE_AFTER_MS THEN "idle" ELSE "done")
    /\ ReturnsToTerminal(j, l, k) => Notified(polls[l], k) = 1

\* done and notified, then running on a newer observation, then done again
\* and notified again
C26_Witness ==
  \E i, j, l \in DOMAIN polls :
    /\ Sees(polls[i], "codex:c1", "done")
    /\ Notified(polls[i], "codex:c1") = 1
    /\ ReadsNewerActive(i, j, "codex:c1")
    /\ Sees(polls[j], "codex:c1", "running")
    /\ ReturnsToTerminal(j, l, "codex:c1")
    /\ Sees(polls[l], "codex:c1", "done")
    /\ Notified(polls[l], "codex:c1") = 1

\* ------------------------------------------------------------------------
\* Specification SpecQuiet: Codex writes the log of its session c1 during
\* the first instant, until the second invocation of desktop_monitor_tick
\* at the latest, and is silent from then on, while the clock
\* advances, the polls go on (at most MaxQuietPolls of them, two under way
\* at once at most) and the user changes the settings.
\* ------------------------------------------------------------------------
\* What Codex appends to the log of its session c1 in SpecQuiet: a line of
\* each state the classifier gives
QuietLines(t) ==
  EdgeLines(t) \cup
  {CodexLine("c1", "event_msg", "agent_reasoning", Some(t),
             None, None, None, None),
   CodexLine("c1", "event_msg", "user_message", Some(t),
             None, None, None, None)}

\* The settings the user chooses among in SpecQuiet: the default ones, the
\* monitor switched off, and the Codex source switched off
QuietSettings ==
  SettingsChoices \cup {[DefaultSettings EXCEPT !.enable_codex = FALSE]}

CodexStillWrites == now = 0 /\ snapshots_built <= 1

QuietAppend(l) == CodexStillWrites /\ CodexAppendsLine(l)

\* A poll of the monitor in a run that records MaxQuietPolls of them
QuietPoll == desktop_monitor_tick(MaxQuietPolls)

NextQuiet ==
  \/ QuietPoll
  \/ Tick(ClockInstants)
  \/ \E l \in QuietLines(now) : QuietAppend(l)
  \/ \E s \in QuietSettings : desktop_set_monitor_settings(s)

SpecQuiet == Init /\ [][NextQuiet]_vars

\* The log has its last content: Codex does not write any more
Quiet == ~CodexStillWrites

\* The session of the log, and the state the scanner merges for it
logged_session == scan_codex(EmptyMap, codex_log)

HasSession(k) == k \in DOMAIN logged_session

merged_state(k) == logged_session[k].state

\* The ranks of the polls of the quiet period: those that have returned and
\* read the log as it is now, no poll invoked after them having read
\* another
quiet_polls ==
  {n \in 1..MaxQuietPolls :
     /\ HasReturned(n)
     /\ \A m \in n..MaxQuietPolls :
          HasReturned(m) => returned_poll(m).log = codex_log}

RECURSIVE notifications_in(_, _, _)
notifications_in(ranks, k, state) ==
  IF ranks = {} THEN 0
  ELSE LET n == CHOOSE n \in ranks : TRUE
       IN (IF Sees(returned_poll(n), k, state)
           THEN Notified(returned_poll(n), k) ELSE 0)
            + notifications_in(ranks \ {n}, k, state)

\* C36, as the specification states it: once the log is quiet, a session
\* whose merged state is not error is reported done by the polls that find
\* it silent for more than DONE_AFTER_MS (so eventually, as time advances),
\* is reported done by every poll invoked after one that reported it done,
\* and has caused exactly one done notification over the quiet period by
\* the time it has been reported done; a session whose merged state is
\* error is reported in error by every poll and is notified at most once.
C36_QuiescenceNotifiesOnce ==
  (Quiet /\ in_flight = <<>> /\ HasSession("codex:c1")) =>
    LET k == "codex:c1"
        last_ts == logged_session[k].last_ts_ms
    IN IF merged_state(k) # "error"
       THEN /\ \A n \in quiet_polls :
                 returned_poll(n).now - last_ts > DONE_AFTER_MS
                   => Sees(returned_poll(n), k, "done")
            /\ \A n, m \in quiet_polls :
                 n < m /\ Sees(returned_poll(n), k, "done")
                   => Sees(returned_poll(m), k, "done")
            /\ (\E n \in quiet_polls : Sees(returned_poll(n), k, "done"))
                 => notifications_in(quiet_polls, k, "done") = 1
       ELSE /\ \A n \in quiet_polls : Sees(returned_poll(n), k, "error")
            /\ notifications_in(quiet_polls, k, "error") <= 1
            /\ notifications_in(quiet_polls, k, "done") = 0

\* How C36 fails when invocations overlap: three polls read the quiet log
\* and report the session done, and two of them notify, because a poll
\* that built its snapshot before the session was silent for DONE_AFTER_MS
\* replaced the table between them.
C36_StalePollRenotifies ==
  /\ Quiet
  /\ in_flight = <<>>
  /\ quiet_polls = {1, 2, 3}
  /\ \A i \in DOMAIN polls :
       polls[i].enabled /\ "codex:c1" \in DOMAIN polls[i].states
  /\ notifications_in(quiet_polls, "codex:c1", "done") = 2

\* How C36 fails when the polls are made in turn: the table held done for
\* the session before its last line was written, no poll saw the state of
\* that line, and the polls of the quiet period report done and find done.
C36_QuietWithoutNotification ==
  /\ Quiet
  /\ in_flight = <<>>
  /\ InTurn(1, 3)
  /\ quiet_polls = {2, 3}
  /\ \A i \in DOMAIN polls :
       polls[i].enabled /\ Sees(polls[i], "codex:c1", "done")
  /\ notifications_in(quiet_polls, "codex:c1", "done") = 0

\* ------------------------------------------------------------------------
\* Specification SpecOverlap: invocations of desktop_monitor_tick on one
\* AppState, two of them under way at once at most, with the monitor
\* enabled, while Codex appends to the log of its session.  polls records
\* the invocations in the order in which they replaced the table, each with
\* the rank of its snapshot in the order in which the snapshots were built.
\* ------------------------------------------------------------------------
NextOverlap ==
  \/ BuildSnapshot(MaxPolls)
  \/ \E i \in 1..MaxInFlight : ReplaceTable(i, MaxPolls)
  \/ \E l \in EdgeLines(now) : CodexAppendsLine(l)

SpecOverlap == Init /\ [][NextOverlap]_vars

\* The snapshots built n-th to m-th have all been returned and all hold key
\* k in one and the same state, done or error: no transition of k lies
\* between them.
SameTerminalState(n, m, k) ==
  /\ n < m
  /\ \A b \in n..m :
       /\ \E i \in DOMAIN polls : polls[i].built = b
       /\ k \in DOMAIN returned_poll(b).states
       /\ returned_poll(b).states[k] \in {"done", "error"}
       /\ returned_poll(b).states[k] = returned_poll(n).states[k]

\* C27, as the specification states it: polls are serialized as a whole:
\* previous_states is never replaced by a poll whose snapshot was built
\* before the snapshot of the poll that last replaced it, and no agent is
\* notified twice for one transition.
C27_PollsSerialized ==
  /\ \A i, j \in DOMAIN polls : i < j => polls[i].built < polls[j].built
  /\ \A n, m \in 1..MaxPolls : \A k \in {"codex:c1"} :
       SameTerminalState(n, m, k)
         => Notified(returned_poll(n), k) + Notified(returned_poll(m), k) <= 1

\* The table that the i-th poll to return found under the lock
table_found(i) == polls[i].found

\* Polls i and i+1 hold key k in one and the same state, done or error,
\* which the table did not hold for k when poll i took the lock.
BothFinish(i, k) ==
  /\ i + 1 <= Len(polls)
  /\ k \in DOMAIN polls[i].states
  /\ polls[i].states[k] \in {"done", "error"}
  /\ Sees(polls[i + 1], k, polls[i].states[k])
  /\ ~Sees([states |-> table_found(i)], k, polls[i].states[k])

\* C31: the read, compare and replace of previous_states are one step under
\* the lock: when two polls that take the lock one after the other hold the
\* same agent in the same done or error state, and the table did not hold
\* that state before, exactly one of them (the first to take the lock)
\* returns the notification.
C31_OneOfTwoPollsNotifies ==
  \A i \in DOMAIN polls : \A k \in {"codex:c1"} :
    BothFinish(i, k) =>
      /\ Notified(polls[i], k) = 1
      /\ Notified(polls[i + 1], k) = 0

\* two polls overlap (the second to take the lock built its snapshot
\* first), both hold the Codex session in error, and one has notified
C31_Witness ==
  \E i \in DOMAIN polls :
    /\ BothFinish(i, "codex:c1")
    /\ polls[i + 1].built < polls[i].built
    /\ Notified(polls[i], "codex:c1") + Notified(polls[i + 1], "codex:c1") = 1

\* ------------------------------------------------------------------------
\* Specification SpecAging: the aging closure of desktop_monitor_tick applied
\* to one record of the registry at one instant.
\* ------------------------------------------------------------------------
\* The states the scanners give a record, and texts they give it: none, the
\* empty text of a reasoning part whose text is "", the two placeholders,
\* and a tool's text.
MergedStates == {"running", "thinking", "waiting", "done", "error"}

MergedTexts == {None, "", "Idle", "Thinking", "build: completed"}

AgingInputs ==
  {[a |-> AgentTemp("opencode", "s1", None, state, 0, text, None, "status"),
    now_ms |-> t] :
     state \in MergedStates, text \in MergedTexts, t \in ClockInstants}

InitAging ==
  /\ input \in AgingInputs
  /\ output = NotCalled
  /\ RegUnused
  /\ PollUnused

AgeAgent ==
  /\ ~output.called
  /\ output' = Returned(age_agent(input.a, input.now_ms))
  /\ UNCHANGED input
  /\ UNCHANGED reg_vars
  /\ UNCHANGED poll_vars

NextAging == AgeAgent

SpecAging == InitAging /\ [][NextAging]_vars

\* C11, as the specification states it: an agent that is idle (the first
\* rule has made it so) and whose silence is greater than 90,000 ms is
\* reported done, its text replaced by "No recent activity" when the text is
\* empty or absent, "Idle" or "Thinking" and kept otherwise; an idle agent
\* with a silence of 90,000 ms or less stays idle.
C11_AgingSecondRule ==
  output.called =>
    LET silence == input.now_ms - input.a.last_ts_ms
        idle == /\ input.a.state \in {"running", "thinking", "waiting"}
                /\ silence > 20000
    IN /\ (idle /\ silence > 90000)
            => /\ output.value.state = "done"
               /\ output.value.last_text =
                    IF input.a.last_text \in {None, "", "Idle", "Thinking"}
                    THEN "No recent activity" ELSE input.a.last_text
       /\ (idle /\ silence <= 90000) => output.value.state = "idle"

\* The silence of the record at the instant of the poll, and whether its
\* merged state is one that ages
aging_silence == input.now_ms - input.a.last_ts_ms

merged_active == input.a.state \in {"running", "thinking", "waiting"}

\* C34: both aging rules are applied in one poll, one after the other: an
\* agent whose merged state is running, thinking or waiting and whose
\* silence is greater than 90,000 ms is reported done by that poll, never
\* idle, and a text that was "Thinking" or absent is reported as "No recent
\* activity".
C34_BothRulesInOnePoll ==
  (output.called /\ merged_active /\ aging_silence > 90000) =>
    /\ output.value.state = "done"
    /\ input.a.last_text \in {None, "Thinking"}
         => output.value.last_text = "No recent activity"

\* a thinking record with the text "Thinking", silent for 90,001 ms
C34_Witness ==
  /\ output.called
  /\ input.a.state = "thinking"
  /\ input.a.last_text = "Thinking"
  /\ aging_silence = 90001
  /\ output.value.state = "done"
  /\ output.value.last_text = "No recent activity"

\* C35: after aging no agent is reported running, thinking or waiting with
\* a silence greater than 20,000 ms, and none is reported idle with a
\* silence greater than 90,000 ms; aging changes neither the state nor the
\* text of an agent whose merged state is done or error, and never changes
\* last_ts_ms.
C35_PostAging ==
  output.called =>
    LET reported == agent_view(output.value)
    IN /\ reported.state \in {"running", "thinking", "waiting"}
            => aging_silence <= 20000
       /\ reported.state = "idle" => aging_silence <= 90000
       /\ input.a.state \in {"done", "error"}
            => /\ reported.state = input.a.state
               /\ reported.last_text = input.a.last_text
       /\ reported.last_ts_ms = input.a.last_ts_ms

\* an error record with the text "Thinking", silent for 90,001 ms, is
\* reported as it was merged
C35_Witness ==
  /\ output.called
  /\ input.a.state = "error"
  /\ input.a.last_text = "Thinking"
  /\ aging_silence = 90001
  /\ output.value = input.a
  /\ agent_view(output.value).state = "error"
  /\ agent_view(output.value).last_text = "Thinking"

\* ------------------------------------------------------------------------
\* Specification SpecScanOpencode: scan_opencode applied to one JSON store
\* of session s1: no message file or one, and at most MaxParts part files
\* in the order collect_files returns them.
\* ------------------------------------------------------------------------
\* What a part file of session s1 may hold: a reasoning part, a tool part
\* completed or failed, each timed 1000 or 2000, or a step-finish part
\* (timed by the file's modification time).
PartContents ==
  {[type |-> "reasoning", tool |-> None, status |-> None,
    time_start |-> Some(t), time_end |-> {}, text |-> "Thinking"] :
     t \in {1000, 2000}}
  \cup
  {[type |-> "tool", tool |-> "build", status |-> st,
    time_start |-> {}, time_end |-> Some(t), text |-> None] :
     st \in {"completed", "error"}, t \in {1000, 2000}}
  \cup
  {[type |-> "step-finish", tool |-> None, status |-> None,
    time_start |-> {}, time_end |-> {}, text |-> None]}

\* The part file with the given content that is the i-th newest of the tree
\* (modification times 3000, 2999, ...).
part_file(c, i) ==
  PartFile(NestedId("s1"), c.type, c.tool, c.status, c.time_start, c.time_end, c.text,
           None, 3001 - i)

\* The lists of at most MaxParts part files with pairwise different
\* contents, newest modification time first.
PartLists ==
  UNION {{[i \in 1..n |-> part_file(cs[i], i)] :
            cs \in {x \in [1..n -> PartContents] :
                      \A i, j \in 1..n : i # j => x[i] # x[j]}} :
         n \in 0..MaxParts}

\* The row of table part with the given content in its data column that is
\* the i-th newest of the table (time_updated 3000, 2999, ...).
part_row(c, i) ==
  PartRow("s1", 3001 - i, c.type, c.tool, c.status, c.time_start, c.time_end,
          c.text, None)

\* The lists of at most MaxParts part rows with pairwise different
\* contents, newest time_updated first.
PartRowLists ==
  UNION {{[i \in 1..n |-> part_row(cs[i], i)] :
            cs \in {x \in [1..n -> PartContents] :
                      \A i, j \in 1..n : i # j => x[i] # x[j]}} :
         n \in 0..MaxParts}

\* The part files occur with the session id at sessionID.sessionId and with
\* "sessionID" as a string of the document
ScanOpencodeInputs ==
  {[message_root_exists |-> TRUE, part_root_exists |-> TRUE,
    messages |-> ms, parts |-> ps,
    session_repo |-> EmptyMap, session_name |-> EmptyMap, db |-> NoDb] :
     ms \in {<<>>, <<MessageFile(FlatId("s1"), "s1", Some(500), {}, None,
                                 None, 3001)>>},
     ps \in PartLists
              \cup {[i \in DOMAIN files |->
                       [files[i] EXCEPT !.sessionID = FlatId("s1")]] :
                      files \in PartLists \ {<<>>}}}

InitScanOpencode ==
  /\ input \in ScanOpencodeInputs
  /\ output = NotCalled
  /\ RegUnused
  /\ PollUnused

ScanOpencode ==
  /\ ~output.called
  /\ output' = Returned(scan_opencode(EmptyMap, input))
  /\ UNCHANGED input
  /\ UNCHANGED reg_vars
  /\ UNCHANGED poll_vars

NextScanOpencode == ScanOpencode

SpecScanOpencode == InitScanOpencode /\ [][NextScanOpencode]_vars

\* The part records of the scenario: a reasoning record at 1000 with text
\* "Thinking" and a tool record at 2000 with status completed.
ScenarioReasoning ==
  [type |-> "reasoning", tool |-> None, status |-> None,
   time_start |-> Some(1000), time_end |-> {}, text |-> "Thinking"]

ScenarioTool ==
  [type |-> "tool", tool |-> "build", status |-> "completed",
   time_start |-> {}, time_end |-> Some(2000), text |-> None]

\* The store holds the two part records of the scenario, in either order,
\* and nothing else.
IsScenario(store) ==
  /\ store.messages = <<>>
  /\ \/ store.parts = <<part_file(ScenarioReasoning, 1),
                        part_file(ScenarioTool, 2)>>
     \/ store.parts = <<part_file(ScenarioTool, 1),
                        part_file(ScenarioReasoning, 2)>>

\* C12, as the specification states it: when the part records of session s1
\* are a reasoning record at 1000 (text "Thinking") and a tool record at
\* 2000 with status completed (text "build: completed"), then in whatever
\* order the scanner reads them the final agent has state done, text
\* "build: completed", and recent_events holds 2 entries, newest first.
C12_ScenarioTwoParts ==
  (output.called /\ IsScenario(input))
    => LET a == output.value["opencode:s1"]
       IN /\ a.state = "done"
          /\ a.last_text = "build: completed"
          /\ Len(a.recent_events) = 2
          /\ a.recent_events[1].ts_ms >= a.recent_events[2].ts_ms

\* ------------------------------------------------------------------------
\* Specification SpecScanCodex: scan_codex applied to the log of session c1
\* whose tail window holds n lines, and the views the poll builds of the
\* registry.
\* ------------------------------------------------------------------------
\* The n lines of a log written at 1000, 2000, ..., in file order; when
\* late is one of 1..n, that line carries the timestamp 1 instead (a record
\* that reached the log out of order).
log_lines(n, late) ==
  [i \in 1..n |->
     CodexLine("c1", "event_msg", "agent_reasoning", Some(IF i = late THEN 1 ELSE 1000 * i),
               None, None, None, None)]

ScanCodexInputs ==
  UNION {{[root_exists |-> TRUE, lines |-> log_lines(n, late),
           modified |-> 1000 * n] : late \in 0..n} :
         n \in 0..MaxLogLines}

InitScanCodex ==
  /\ input \in ScanCodexInputs
  /\ output = NotCalled
  /\ RegUnused
  /\ PollUnused

ScanCodex ==
  /\ ~output.called
  /\ output' = Returned(agent_views(scan_codex(EmptyMap, input),
                                    EmptyMap, input.modified))
  /\ UNCHANGED input
  /\ UNCHANGED reg_vars
  /\ UNCHANGED poll_vars

NextScanCodex == ScanCodex

SpecScanCodex == InitScanCodex /\ [][NextScanCodex]_vars

\* The timestamps of the lines of a log, and of the events of a view
line_timestamps(log) ==
  {unwrap_or(log.lines[i].ts, log.modified) : i \in DOMAIN log.lines}

event_timestamps(agent) ==
  {agent.recent_events[i].ts_ms : i \in DOMAIN agent.recent_events}

\* C13, as the specification states it: recent_events of every agent of a
\* snapshot holds the agent's most recent observations (no observation left
\* out is newer than one that is held), ordered newest first (timestamps
\* non-increasing from the first entry to the last), and never more than 20
\* entries.
C13_RecentEventsNewestFirstCapped ==
  output.called =>
    \A agent \in output.value :
      /\ Len(agent.recent_events) <= 20
      /\ \A i, j \in DOMAIN agent.recent_events :
           i < j => agent.recent_events[i].ts_ms
                      >= agent.recent_events[j].ts_ms
      /\ \A t \in line_timestamps(input) \ event_timestamps(agent) :
           \A k \in event_timestamps(agent) : t <= k

\* ------------------------------------------------------------------------
\* normalize_epoch_ms (lib.rs:1527-1541)
\*
\* An i64 is a sign and a magnitude; the magnitude is written as its seven
\* groups of three decimal digits, most significant first, the way the
\* source writes 10_000_000_000 (<<0, 0, 0, 10, 0, 0, 0>>).  Multiplying by
\* 1000 moves every group one place up, dividing by 1000 moves every group
\* one place down and drops the last one (Rust's division truncates).
\* ------------------------------------------------------------------------
i64(neg, mag) == [neg |-> neg, mag |-> mag]

i64_zero == <<0, 0, 0, 0, 0, 0, 0>>

i64_MAX == <<9, 223, 372, 36, 854, 775, 807>>

i64_lt(a, b) == \E i \in 1..7 : a[i] < b[i] /\ \A j \in 1..(i - 1) : a[j] = b[j]

i64_gt(a, b) == i64_lt(b, a)

saturating_mul_1000(m) ==
  LET product == <<m[2], m[3], m[4], m[5], m[6], m[7], 0>>
  IN IF m[1] # 0 \/ i64_gt(product, i64_MAX) THEN i64_MAX ELSE product

div_1000(m) == <<0, m[1], m[2], m[3], m[4], m[5], m[6]>>

div_1000000(m) == <<0, 0, m[1], m[2], m[3], m[4], m[5]>>

TEN_BILLION == <<0, 0, 0, 10, 0, 0, 0>>

TEN_TRILLION == <<0, 0, 10, 0, 0, 0, 0>>

TEN_QUADRILLION == <<0, 10, 0, 0, 0, 0, 0>>

\* the same function with the microsecond check ahead of the nanosecond one
normalize_epoch_ms_micros_first(value) ==
  IF value.neg \/ value.mag = i64_zero THEN value
  ELSE IF i64_lt(value.mag, TEN_BILLION)
    THEN i64(FALSE, saturating_mul_1000(value.mag))
  ELSE IF i64_gt(value.mag, TEN_TRILLION)
    THEN i64(FALSE, div_1000(value.mag))
  ELSE IF i64_gt(value.mag, TEN_QUADRILLION)
    THEN i64(FALSE, div_1000000(value.mag))
  ELSE value

normalize_epoch_ms(value) ==
  IF value.neg \/ value.mag = i64_zero THEN value
  ELSE IF i64_lt(value.mag, TEN_BILLION)
    THEN i64(FALSE, saturating_mul_1000(value.mag))
  ELSE IF i64_gt(value.mag, TEN_QUADRILLION)
    THEN i64(FALSE, div_1000000(value.mag))
  ELSE IF i64_gt(value.mag, TEN_TRILLION)
    THEN i64(FALSE, div_1000(value.mag))
  ELSE value

\* ------------------------------------------------------------------------
\* Specification SpecNormalize: normalize_epoch_ms applied to one i64.
\* The inputs lie on and around the three thresholds, around present-day
\* instants in each unit, and at both ends of the i64 range.
\* ------------------------------------------------------------------------
EpochPrefixes ==
  { <<0, 0, 0, 0, 0, 0>>, <<0, 0, 0, 0, 0, 1>>,
    <<0, 0, 0, 0, 1, 761>>, <<0, 0, 0, 1, 761, 840>>,
    <<0, 0, 0, 9, 999, 999>>, <<0, 0, 0, 10, 0, 0>>,
    <<0, 0, 1, 761, 840, 0>>,
    <<0, 0, 9, 999, 999, 999>>, <<0, 0, 10, 0, 0, 0>>,
    <<0, 1, 761, 840, 0, 0>>,
    <<0, 9, 999, 999, 999, 999>>, <<0, 10, 0, 0, 0, 0>>,
    <<1, 761, 840, 0, 0, 0>>,
    <<9, 223, 372, 36, 854, 775>> }

EpochUnits == {0, 1, 123, 807, 999}

EpochMagnitudes ==
  {m \in {Append(p, u) : p \in EpochPrefixes, u \in EpochUnits} :
     ~i64_gt(m, i64_MAX)}

NormalizeInputs ==
  {i64(FALSE, m) : m \in EpochMagnitudes}
    \cup {i64(TRUE, m) : m \in EpochMagnitudes \ {i64_zero}}

InitNormalize ==
  /\ input \in NormalizeInputs
  /\ output = NotCalled
  /\ RegUnused
  /\ PollUnused

NormalizeEpochMs ==
  /\ ~output.called
  /\ output' = Returned(normalize_epoch_ms(input))
  /\ UNCHANGED input
  /\ UNCHANGED reg_vars
  /\ UNCHANGED poll_vars

NextNormalize == NormalizeEpochMs

SpecNormalize == InitNormalize /\ [][NextNormalize]_vars

\* value * 10^k = result, for magnitudes of seven groups
is_times_1000(m, r) == m[1] = 0 /\ r[7] = 0 /\ \A i \in 1..6 : r[i] = m[i + 1]

\* result = value / 1000 and result = value / 1000000, rounded towards zero
is_div_1000(m, r) == r[1] = 0 /\ \A i \in 2..7 : r[i] = m[i - 1]

is_div_1000000(m, r) == r[1] = 0 /\ r[2] = 0 /\ \A i \in 3..7 : r[i] = m[i - 2]

\* C15: normalize_epoch_ms is this function, the first case that applies
\* deciding: a value <= 0 comes back unchanged; a value below
\* 10,000,000,000 comes back multiplied by 1000; a value above
\* 10,000,000,000,000,000 comes back divided by 1,000,000; a value above
\* 10,000,000,000,000 comes back divided by 1000; any other value comes
\* back unchanged.
C15_NormalizerCases ==
  output.called =>
    LET v == input.mag
        r == output.value
        nonpositive == input.neg \/ v = i64_zero
        seconds == ~nonpositive /\ i64_lt(v, TEN_BILLION)
        nanos == ~nonpositive /\ ~seconds /\ i64_gt(v, TEN_QUADRILLION)
        micros == ~nonpositive /\ ~seconds /\ ~nanos /\ i64_gt(v, TEN_TRILLION)
    IN /\ nonpositive => r = input
       /\ seconds => ~r.neg /\ is_times_1000(v, r.mag)
       /\ nanos => ~r.neg /\ is_div_1000000(v, r.mag)
       /\ micros => ~r.neg /\ is_div_1000(v, r.mag)
       /\ (~nonpositive /\ ~seconds /\ ~nanos /\ ~micros) => r = input

\* a present-day instant in nanoseconds has been brought to milliseconds
C15_Witness ==
  /\ output.called
  /\ input = i64(FALSE, <<1, 761, 840, 0, 0, 0, 123>>)
  /\ output.value = i64(FALSE, <<0, 0, 1, 761, 840, 0, 0>>)

\* ------------------------------------------------------------------------
\* Specification SpecEncodings: normalize_epoch_ms applied to the four
\* encodings of one instant.  An instant is a number of milliseconds since
\* the epoch, from the epoch itself up to the last instant whose nanosecond
\* encoding is an i64 (9,223,372,036,854 ms, in the year 2262).
\* ------------------------------------------------------------------------
LAST_INSTANT == <<0, 0, 9, 223, 372, 36, 854>>

InstantPrefixes ==
  { <<0, 0, 0, 0, 0, 0>>, <<0, 0, 0, 0, 0, 1>>, <<0, 0, 0, 0, 0, 10>>,
    <<0, 0, 0, 0, 10, 0>>, <<0, 0, 0, 9, 999, 999>>,
    <<0, 0, 0, 10, 0, 0>>, <<0, 0, 0, 10, 0, 1>>,
    <<0, 0, 0, 500, 0, 0>>, <<0, 0, 1, 0, 0, 0>>,
    <<0, 0, 1, 761, 840, 0>>, <<0, 0, 1, 761, 840, 1>>,
    <<0, 0, 9, 0, 0, 0>>, <<0, 0, 9, 223, 372, 36>> }

Instants ==
  {m \in {Append(p, u) : p \in InstantPrefixes, u \in EpochUnits} :
     ~i64_gt(m, LAST_INSTANT)}

\* the instant in epoch seconds, milliseconds, microseconds, nanoseconds
encodings(instant) ==
  [s |-> i64(FALSE, div_1000(instant)),
   ms |-> i64(FALSE, instant),
   us |-> i64(FALSE, <<instant[2], instant[3], instant[4], instant[5],
                       instant[6], instant[7], 0>>),
   ns |-> i64(FALSE, <<instant[3], instant[4], instant[5], instant[6],
                       instant[7], 0, 0>>)]

InitEncodings ==
  /\ input \in Instants
  /\ output = NotCalled
  /\ RegUnused
  /\ PollUnused

NormalizeEncodings ==
  /\ ~output.called
  /\ output' = Returned([unit \in {"s", "ms", "us", "ns"} |->
                           normalize_epoch_ms(encodings(input)[unit])])
  /\ UNCHANGED input
  /\ UNCHANGED reg_vars
  /\ UNCHANGED poll_vars

NextEncodings == NormalizeEncodings

SpecEncodings == InitEncodings /\ [][NextEncodings]_vars

\* the four results are one millisecond value, the one from seconds being
\* allowed to have lost the milliseconds within its second
same_instant(r) ==
  /\ r.ms = r.us
  /\ r.ms = r.ns
  /\ ~r.s.neg /\ ~r.ms.neg
  /\ div_1000(r.s.mag) = div_1000(r.ms.mag)

\* C16, as the specification states it: for every instant, its encodings as
\* epoch seconds, milliseconds, microseconds and nanoseconds are normalized
\* to the identical millisecond value, up to the rounding of integer
\* division.
C16_EveryInstantNormalizesAlike ==
  output.called => same_instant(output.value)

\* C16, as the code has it: for every instant later than 10,000,000,000 ms
\* after the epoch (1970-04-26T17:46:40Z) whose nanosecond encoding is an
\* i64, the encodings as epoch seconds, milliseconds, microseconds and
\* nanoseconds are normalized to the identical millisecond value, which is
\* the instant itself (from seconds: the instant without its milliseconds).
C16_LaterInstantsNormalizeAlike ==
  (output.called /\ i64_gt(input, TEN_BILLION)) =>
    /\ same_instant(output.value)
    /\ output.value.ms = i64(FALSE, input)
    /\ is_times_1000(div_1000(input), output.value.s.mag)

\* a present-day instant: 1,761,840,000,123 ms
C16_Witness ==
  /\ output.called
  /\ input = <<0, 0, 1, 761, 840, 0, 123>>
  /\ output.value.ns = i64(FALSE, input)
  /\ output.value.us = i64(FALSE, input)
  /\ output.value.s = i64(FALSE, <<0, 0, 1, 761, 840, 0, 0>>)

\* ------------------------------------------------------------------------
\* Specification SpecScanStores: scan_opencode applied to an empty registry,
\* a database file and a JSON store.
\* ------------------------------------------------------------------------
SessionRowLists ==
  { <<>>,
    <<SessionRow("s1", "/repo/db", None, 1500)>>,
    <<SessionRow("s1", "/repo/db", "Fix login", 1500)>>,
    <<SessionRow("s2", "/repo/db", None, 2500),
      SessionRow("s1", "/repo/db", None, 1500)>> }

DbPartLists == {<<>>} \cup {<<part_row(c, 1)>> : c \in PartContents}

OpencodeDbs ==
  {OpencodeDb(FALSE, FALSE, FALSE, FALSE, <<>>, <<>>),
   OpencodeDb(TRUE, FALSE, FALSE, FALSE, <<>>, <<>>),
   OpencodeDb(TRUE, TRUE, FALSE, FALSE, <<>>, <<>>)}
  \cup {OpencodeDb(TRUE, TRUE, TRUE, FALSE, rows, <<>>) :
          rows \in SessionRowLists}
  \cup {OpencodeDb(TRUE, TRUE, TRUE, TRUE, rows, parts) :
          rows \in SessionRowLists, parts \in DbPartLists}

ScanStoresInputs ==
  {[db |-> db, store |-> store] :
     db \in OpencodeDbs, store \in ScanOpencodeInputs}

InitScanStores ==
  /\ input \in ScanStoresInputs
  /\ output = NotCalled
  /\ RegUnused
  /\ PollUnused

\* The result records, beside the map scan_opencode leaves, what
\* scan_opencode_db returned and the map it handed on.
ScanStores ==
  /\ ~output.called
  /\ output' = Returned(
       [db_ok |-> scan_opencode_db(EmptyMap, input.db).ok,
        json_scanned |-> ~scan_opencode_db(EmptyMap, input.db).ok,
        map_after_db |-> scan_opencode_db(EmptyMap, input.db).map,
        map |-> scan_opencode(EmptyMap, OpencodeData(input.db, input.store))])
  /\ UNCHANGED input
  /\ UNCHANGED reg_vars
  /\ UNCHANGED poll_vars

NextScanStores == ScanStores

SpecScanStores == InitScanStores /\ [][NextScanStores]_vars

\* C20, as the specification states it: within one poll the database
\* scanner and the JSON-store scanner are mutually exclusive: when the
\* database scan succeeds the JSON-store scanner is not run (the registry is
\* as the database scanner left it, even if that is empty), and whenever the
\* JSON-store scanner runs the registry holds no observation that came from
\* the database scanner.
C20_StoresMutuallyExclusive ==
  output.called =>
    /\ output.value.db_ok =>
         /\ ~output.value.json_scanned
         /\ output.value.map = output.value.map_after_db
    /\ output.value.json_scanned => output.value.map_after_db = EmptyMap

\* C39: every agent that the database scanner or the JSON-store scanner
\* leaves in the registry has exactly one entry in recent_events, whatever
\* the upserts made for its key; the entry is the observation that gives
\* the agent its state and last_ts_ms, and no earlier observation of the
\* key is kept.
C39_OneRecentEvent ==
  output.called =>
    \A k \in DOMAIN output.value.map :
      LET agent == output.value.map[k]
      IN /\ Len(agent.recent_events) = 1
         /\ agent.recent_events[1].ts_ms = agent.last_ts_ms
         /\ agent.recent_events[1].state_hint = agent.state
         /\ agent.recent_events[1].text \in {None, agent.last_text}

\* the database gave a session row of s1 and then a failed tool part of
\* s1: two upserts for the key, and the one event is the part's
C39_Witness ==
  /\ output.called
  /\ output.value.db_ok
  /\ \E i \in DOMAIN input.db.sessions : input.db.sessions[i].id = "s1"
  /\ input.db.parts # <<>>
  /\ "opencode:s1" \in DOMAIN output.value.map
  /\ output.value.map["opencode:s1"].state = "error"
  /\ output.value.map["opencode:s1"].repo_path = "/repo/db"
  /\ Len(output.value.map["opencode:s1"].recent_events) = 1
  /\ output.value.map["opencode:s1"].recent_events[1].event_type = "error"

\* ------------------------------------------------------------------------
\* Specification SpecCorrupt: the scanners of one poll over sources of which
\* one holds, among its valid items, one item that does not parse; the
\* source holds fewer items than the scanner reads of it, as many, or one
\* more.
\* ------------------------------------------------------------------------
JsonStore(messages, parts) ==
  [message_root_exists |-> TRUE, part_root_exists |-> TRUE,
   messages |-> messages, parts |-> parts,
   session_repo |-> EmptyMap, session_name |-> EmptyMap, db |-> NoDb]

CodexLog(lines) == [root_exists |-> TRUE, lines |-> lines, modified |-> 3000]

\* The items seq of a source (the files of a tree or the rows of table
\* part, newest first, or the lines of a log) with one more item, which
\* does not parse, after its first k items
with_corrupt(seq, k) ==
  SubSeq(seq, 1, k) \o <<Unparseable>> \o SubSeq(seq, k + 1, Len(seq))

corrupted(seqs) ==
  UNION {{with_corrupt(seq, k) : k \in 0..Len(seq)} : seq \in seqs}

ValidMessageLists ==
  { <<>>,
    <<MessageFile(FlatId("s1"), "s1", Some(500), {}, None, None, 3000)>>,
    <<MessageFile(FlatId("s2"), "s2", Some(700), Some(900), "Summary", "/repo/web", 3000),
      MessageFile(FlatId("s1"), "s1", Some(500), {}, None, None, 2999)>> }

ValidLineLists ==
  { <<>>,
    <<CodexLine("c1", "event_msg", "task_started", Some(1000),
                None, None, None, None)>>,
    <<CodexLine("c1", "event_msg", "task_started", Some(1000),
                None, None, None, None),
      CodexLine("c2", "event_msg", "error", Some(2000),
                None, None, None, None)>>,
    <<CodexLine("c1", "event_msg", "task_started", Some(1000),
                None, None, None, None),
      CodexLine("c1", "event_msg", "task_complete", Some(2000),
                None, None, None, None)>> }

OneValidLine ==
  <<CodexLine("c9", "event_msg", "task_started", Some(1500),
              None, None, None, None)>>

CorruptInputs ==
  {[db |-> NoDb, store |-> JsonStore(ms, ps), log |-> CodexLog(OneValidLine)] :
     ms \in corrupted(ValidMessageLists), ps \in {<<>>}}
  \cup
  {[db |-> NoDb, store |-> JsonStore(ms, ps), log |-> CodexLog(OneValidLine)] :
     ms \in ValidMessageLists, ps \in corrupted(PartLists)}
  \cup
  {[db |-> OpencodeDb(TRUE, TRUE, TRUE, TRUE, rows, ps),
    store |-> JsonStore(<<>>, <<>>), log |-> CodexLog(OneValidLine)] :
     rows \in SessionRowLists, ps \in corrupted(PartRowLists)}
  \cup
  {[db |-> NoDb, store |-> JsonStore(<<>>, <<>>), log |-> CodexLog(ls)] :
     ls \in corrupted(ValidLineLists)}

\* What the scanners read of the sources: collect_files keeps the MaxRead
\* newest files of a tree (files.truncate(max_files), lib.rs:1493-1496), the
\* part statement selects the MaxRead newest rows (LIMIT ?1, lib.rs:722-731)
\* and read_tail gives the end of the log (lib.rs:1549-1561; the window of
\* the model is MaxRead lines long and begins at the start of a line).
\* Whether an item parses is found out only once it has been read.
sources_read(in) ==
  [db |-> [in.db EXCEPT !.parts = truncate(@, MaxRead)],
   store |-> [in.store EXCEPT !.messages = truncate(@, MaxRead),
                              !.parts = truncate(@, MaxRead)],
   log |-> [in.log EXCEPT !.lines = last_n(@, MaxRead)]]

InitCorrupt ==
  /\ input \in CorruptInputs
  /\ output = NotCalled
  /\ RegUnused
  /\ PollUnused

\* The agent views of a poll at instant 3000 that reads the given items
views_of(read) ==
  agent_views(
    scan_sources(DefaultSettings, OpencodeData(read.db, read.store), read.log),
    EmptyMap, 3000)

ScanCorrupt ==
  /\ ~output.called
  /\ output' = Returned(views_of(sources_read(input)))
  /\ UNCHANGED input
  /\ UNCHANGED reg_vars
  /\ UNCHANGED poll_vars

NextCorrupt == ScanCorrupt

SpecCorrupt == InitCorrupt /\ [][NextCorrupt]_vars

\* The sources with every item that does not parse taken out
valid_items(seq) == SelectSeq(seq, parses)

valid_sources(in) ==
  [db |-> [in.db EXCEPT !.parts = valid_items(in.db.parts)],
   store |-> [in.store EXCEPT !.messages = valid_items(in.store.messages),
                              !.parts = valid_items(in.store.parts)],
   log |-> [in.log EXCEPT !.lines = valid_items(in.log.lines)]]

\* No source holds more items than the scanner reads of it.
WithinCaps(in) ==
  /\ Len(in.db.parts) <= MaxRead
  /\ Len(in.store.messages) <= MaxRead
  /\ Len(in.store.parts) <= MaxRead
  /\ Len(in.log.lines) <= MaxRead

\* C21, as the specification states it: a file, a database row payload or a
\* log line that does not parse is skipped and the scan goes on with the
\* next item: a source holding one corrupt item among N valid ones yields
\* exactly the agents of the N valid items, and the poll returns its
\* snapshot.
C21_CorruptItemIsSkipped ==
  output.called => output.value = views_of(sources_read(valid_sources(input)))

\* C21, as the program behaves: an item that does not parse is skipped and
\* the scan goes on with the next item, so the poll returns the agents of
\* the valid items among the items it reads; the corrupt item counts as
\* one of the items read, so these are the agents of all N valid items
\* when the source holds, with the corrupt item, no more items than the
\* scanner reads of it.
C21_CorruptItemReadIsSkipped ==
  output.called =>
    /\ output.value = views_of(valid_sources(sources_read(input)))
    /\ WithinCaps(input)
         => output.value = views_of(sources_read(valid_sources(input)))

\* the newest of three message files does not parse: the scan goes on with
\* the file of session s2 and does not reach the file of session s1, which
\* it would have read had the corrupt file not been there
C21_Witness ==
  /\ output.called
  /\ Len(input.store.messages) = 3
  /\ input.store.messages[1] = Unparseable
  /\ {agent.key : agent \in output.value} = {"opencode:s2", "codex:c9"}
  /\ {agent.key : agent \in views_of(sources_read(valid_sources(input)))}
       = {"opencode:s1", "opencode:s2", "codex:c9"}

\* ------------------------------------------------------------------------
\* Specification SpecMissingRoot: the scanners of one poll when the data
\* root of one source is missing (root.exists() is false) or cannot be
\* read (collect_files returns no file), the other source holding items.
\* ------------------------------------------------------------------------
MissingStores ==
  {[message_root_exists |-> FALSE, part_root_exists |-> FALSE,
    messages |-> <<>>, parts |-> <<>>,
    session_repo |-> EmptyMap, session_name |-> EmptyMap, db |-> NoDb]}
  \cup
  {[message_root_exists |-> FALSE, part_root_exists |-> TRUE,
    messages |-> <<>>, parts |-> ps,
    session_repo |-> EmptyMap, session_name |-> EmptyMap, db |-> NoDb] :
     ps \in PartLists}
  \cup {JsonStore(<<>>, <<>>)}

MissingLogs ==
  {[root_exists |-> FALSE, lines |-> <<>>, modified |-> 0], CodexLog(<<>>)}

MissingRootInputs ==
  {[missing |-> "opencode", db |-> NoDb, store |-> store,
    log |-> CodexLog(ls)] :
     store \in MissingStores, ls \in ValidLineLists}
  \cup
  {[missing |-> "codex", db |-> NoDb, store |-> JsonStore(ms, ps),
    log |-> log] :
     ms \in ValidMessageLists, ps \in PartLists, log \in MissingLogs}
  \cup
  {[missing |-> "codex",
    db |-> OpencodeDb(TRUE, TRUE, TRUE, TRUE, rows, ps),
    store |-> JsonStore(<<>>, <<>>), log |-> log] :
     rows \in SessionRowLists, ps \in DbPartLists, log \in MissingLogs}

InitMissingRoot ==
  /\ input \in MissingRootInputs
  /\ output = NotCalled
  /\ RegUnused
  /\ PollUnused

ScanMissingRoot ==
  /\ ~output.called
  /\ output' = Returned(agent_views(
                 scan_sources(DefaultSettings, OpencodeData(input.db,
                     input.store), input.log),
                 EmptyMap, 3000))
  /\ UNCHANGED input
  /\ UNCHANGED reg_vars
  /\ UNCHANGED poll_vars

NextMissingRoot == ScanMissingRoot

SpecMissingRoot == InitMissingRoot /\ [][NextMissingRoot]_vars

\* The settings with one source switched off
without_source(source) ==
  IF source = "opencode" THEN [DefaultSettings EXCEPT !.enable_opencode = FALSE]
  ELSE [DefaultSettings EXCEPT !.enable_codex = FALSE]

\* C22: a source whose data root is missing or cannot be read contributes no
\* agent and raises no error: the poll returns its snapshot, built from the
\* other sources, and the agents are those the poll returns with the
\* missing source disabled.
C22_MissingRootGivesNoAgents ==
  output.called =>
    /\ \A agent \in output.value : agent.source # input.missing
    /\ output.value
         = agent_views(
             scan_sources(without_source(input.missing), OpencodeData(input.db,
                 input.store), input.log),
             EmptyMap, 3000)

\* no message tree beside a part tree that holds a part of session s1: the
\* snapshot holds the Codex session only
C22_Witness ==
  /\ output.called
  /\ input.missing = "opencode"
  /\ ~input.store.message_root_exists
  /\ input.store.parts # <<>>
  /\ {agent.key : agent \in output.value} = {"codex:c1"}

\* ------------------------------------------------------------------------
\* Specification SpecClassify: classify_codex_event applied to the type of
\* one record and the type of its payload, in either letter case, alone
\* and with tokens of several classes in one record.
\* ------------------------------------------------------------------------
RecordTypes ==
  {"event_msg", "response_item", "", "Event_Msg", "turn.completed",
   "item.completed", "turn_aborted", "error", "ERROR", "turn_failed",
   "fatal"}

PayloadTypes ==
  {"", "agent_message", "message", "agent_reasoning", "reasoning",
   "token_count", "task_started", "user_message", "function_call",
   "custom_tool_call", "function_call_output", "custom_tool_call_output",
   "task_complete", "Task_Complete", "turn_completed", "turn_aborted",
   "task_aborted", "Aborted", "error", "stream_error", "exec_failed",
   "exception", "aborted_after_error", "error_completed",
   "Agent_Message", "other"}

ClassifyInputs ==
  {[kind |-> kind, payload_type |-> payload_type, message |-> message,
    name |-> name] :
     kind \in RecordTypes, payload_type \in PayloadTypes,
     message \in {None, "hello"}, name \in {None, "shell"}}

InitClassify ==
  /\ input \in ClassifyInputs
  /\ output = NotCalled
  /\ RegUnused
  /\ PollUnused

ClassifyCodexEvent ==
  /\ ~output.called
  /\ output' = Returned(classify_codex_event(input.kind, input.payload_type,
                                             input.message, input.name))
  /\ UNCHANGED input
  /\ UNCHANGED reg_vars
  /\ UNCHANGED poll_vars

NextClassify == ClassifyCodexEvent

SpecClassify == InitClassify /\ [][NextClassify]_vars

\* The token classes of the tail-log classifier, in their priority order
CompletionTokens ==
  {"task_complete", "turn_completed", "turn.complete", "item.completed",
   "completed"}

AbortTokens == {"turn_aborted", "task_aborted", "aborted"}

ErrorTokens == {"error", "failed", "exception", "fatal"}

has_token(in, tokens) ==
  \E token \in tokens :
    contains(to_lowercase(in.kind) \o " " \o to_lowercase(in.payload_type),
             token)

\* The state the payload-type rules give
payload_type_state(payload_type) ==
  IF payload_type \in {"agent_message", "message"} THEN "running"
  ELSE IF payload_type \in {"agent_reasoning", "reasoning", "token_count"}
    THEN "thinking"
  ELSE IF payload_type = "task_started" THEN "running"
  ELSE IF payload_type = "user_message" THEN "waiting"
  ELSE "running"

\* C23: the tail-log classifier applies its rules in a fixed priority order
\* over the lower-cased concatenation of the record type and the payload
\* type: a completion token gives done, else an abort token gives waiting,
\* else an error token gives error, and only then the payload-type rules
\* apply; a record with tokens of several classes gets the state of the
\* first class that matches.
C23_ClassifierPriority ==
  output.called =>
    output.value.state =
      IF has_token(input, CompletionTokens) THEN "done"
      ELSE IF has_token(input, AbortTokens) THEN "waiting"
      ELSE IF has_token(input, ErrorTokens) THEN "error"
      ELSE payload_type_state(input.payload_type)

\* an upper-case ERROR record whose payload is a completion: done
C23_Witness ==
  /\ output.called
  /\ input.kind = "ERROR"
  /\ input.payload_type = "Task_Complete"
  /\ output.value.state = "done"

\* ------------------------------------------------------------------------
\* Specification SpecTexts: one poll over a source that holds one item with
\* a free text of a length around MAX_MONITOR_TEXT_CHARS: the summary of a
\* message file, the text of a reasoning part (file or database row), the
\* message of a Codex agent_message line.
\* ------------------------------------------------------------------------
RECURSIVE text_of_length(_)
text_of_length(n) ==
  IF n = 0 THEN ""
  ELSE IF n % 2 = 0
    THEN LET half == text_of_length(n \div 2) IN half \o half
  ELSE "x" \o text_of_length(n - 1)

TextLengths ==
  (MAX_MONITOR_TEXT_CHARS - 10)..(MAX_MONITOR_TEXT_CHARS + 10)

TextCarriers == {"message file", "part file", "database row", "log line"}

TextInputs ==
  {[carrier |-> carrier, text |-> text_of_length(n)] :
     carrier \in TextCarriers, n \in TextLengths}

text_part(text) ==
  PartFile(NestedId("s1"), "reasoning", None, None, Some(1000), {}, text,
           None, 3000)

text_row(text) ==
  PartRow("s1", 3000, "reasoning", None, None, Some(1000), {}, text, None)

\* The sources that hold the one item carrying the text
text_sources(in) ==
  [db |-> IF in.carrier = "database row"
          THEN OpencodeDb(TRUE, TRUE, TRUE, TRUE, <<>>, <<text_row(in.text)>>)
          ELSE NoDb,
   store |-> IF in.carrier = "message file"
             THEN JsonStore(<<MessageFile(FlatId("s1"), "s1", Some(1000), {}, in.text,
                                          None, 3000)>>, <<>>)
             ELSE IF in.carrier = "part file"
             THEN JsonStore(<<>>, <<text_part(in.text)>>)
             ELSE JsonStore(<<>>, <<>>),
   log |-> IF in.carrier = "log line"
           THEN CodexLog(<<CodexLine("c1", "event_msg", "agent_message", Some(1000),
                                     None, None, in.text, None)>>)
           ELSE CodexLog(<<>>)]

InitTexts ==
  /\ input \in TextInputs
  /\ output = NotCalled
  /\ RegUnused
  /\ PollUnused

ScanTexts ==
  /\ ~output.called
  /\ output' = Returned(agent_views(
                 scan_sources(DefaultSettings,
                     OpencodeData(text_sources(input).db,
                     text_sources(input).store), text_sources(input).log),
                 EmptyMap, 3000))
  /\ UNCHANGED input
  /\ UNCHANGED reg_vars
  /\ UNCHANGED poll_vars

NextTexts == ScanTexts

SpecTexts == InitTexts /\ [][NextTexts]_vars

\* text is original within the budget of 180 characters: original itself
\* when that is no longer, else its first 180 characters and "..."
within_budget(text, original) ==
  IF Len(original) <= 180 THEN text = original
  ELSE text = SubSeq(original, 1, 180) \o "..."

\* C24, as the specification states it: every display text that reaches a
\* snapshot (the last_text of each agent and the text of each entry of its
\* recent_events), from every source, is at most 180 characters long, or is
\* the first 180 characters of the original followed by "..." when the
\* original was longer.
C24_DisplayTextsWithinBudget ==
  output.called =>
    \A agent \in output.value :
      /\ within_budget(agent.last_text, input.text)
      /\ \A i \in DOMAIN agent.recent_events :
           within_budget(agent.recent_events[i].text, input.text)

\* ------------------------------------------------------------------------
\* Specification SpecBindings: one poll over an OpenCode session s1 and a
\* Codex session c1, each with or without a repo path of its own, under
\* the bindings the user has stored.
\* ------------------------------------------------------------------------
BindingChoices ==
  {<<"codex:c1", "/bound/c1">>, <<"opencode:s1", "/bound/s1">>,
   <<"codex:c2", "/bound/c2">>, <<"opencode:S1", "/bound/upper">>}

\* read_repo_bindings after desktop_bind_repo has stored the chosen pairs
bindings_of(pairs) ==
  [key \in {pair[1] : pair \in pairs} |->
     (CHOOSE pair \in pairs : pair[1] = key)[2]]

BindingInputs ==
  {[path |-> path, cwd |-> cwd, bindings |-> bindings_of(pairs)] :
     path \in {None, "/repo/web", ""}, cwd \in {None, "/repo/app"},
     pairs \in SUBSET BindingChoices}

InitBindings ==
  /\ input \in BindingInputs
  /\ output = NotCalled
  /\ RegUnused
  /\ PollUnused

ScanBindings ==
  /\ ~output.called
  /\ output' = Returned(agent_views(
                 scan_sources(
                   DefaultSettings,
                   OpencodeData(
                     NoDb,
                     JsonStore(<<MessageFile(FlatId("s1"), "s1", Some(1000), {},
                                             None, input.path, 3000)>>,
                               <<>>)),
                   CodexLog(<<CodexLine("c1", "event_msg", "task_started",
                                        Some(2000), input.cwd, None, None,
                                        None)>>)),
                 input.bindings, 3000))
  /\ UNCHANGED input
  /\ UNCHANGED reg_vars
  /\ UNCHANGED poll_vars

NextBindings == ScanBindings

SpecBindings == InitBindings /\ [][NextBindings]_vars

\* The repo path the source of an agent of this poll gave it
scanned_repo_path(key) == IF key = "opencode:s1" THEN input.path ELSE input.cwd

\* C25: the binding is consulted only for agents whose repo_path is unset
\* after scanning: an agent whose source determined a repo_path keeps it
\* even when a binding exists for its key, an agent without one takes the
\* binding for its exact key, and an agent with neither has no repo_path.
C25_BindingFillsUnsetRepoPath ==
  output.called =>
    /\ {agent.key : agent \in output.value} = {"opencode:s1", "codex:c1"}
    /\ \A agent \in output.value :
         agent.repo_path =
           IF scanned_repo_path(agent.key) # None
           THEN scanned_repo_path(agent.key)
           ELSE IF agent.key \in DOMAIN input.bindings
           THEN input.bindings[agent.key]
           ELSE None

\* both keys are bound; the Codex session has its own cwd and keeps it, the
\* OpenCode session has none and takes its binding
C25_Witness ==
  /\ output.called
  /\ {"codex:c1", "opencode:s1"} \subseteq DOMAIN input.bindings
  /\ \E agent \in output.value :
       agent.key = "codex:c1" /\ agent.repo_path = "/repo/app"
  /\ \E agent \in output.value :
       agent.key = "opencode:s1" /\ agent.repo_path = "/bound/s1"

\* ------------------------------------------------------------------------
\* Specification SpecRederive: one poll, made over one and the same state
\* of the sources, settings, bindings and clock, with each of several
\* contents of previous_states.
\* ------------------------------------------------------------------------
\* What desktop_monitor_tick can return, with the table it leaves, when
\* previous_states holds lock
tick_results_keeps_finished(s, store, log, bindings, now_ms, lock) ==
  IF ~s.enabled
  THEN {[payload |-> DisabledPayload(now_ms), table |-> lock]}
  ELSE {LET kept == [i \in DOMAIN agents |->
                       IF /\ agents[i].key \in DOMAIN lock
                          /\ lock[agents[i].key] \in {"done", "error"}
                       THEN [agents[i] EXCEPT !.state = lock[agents[i].key]]
                       ELSE agents[i]]
        IN [payload |->
              [snapshot |-> [summary |-> MonitorSummary(kept),
                             agents |-> kept,
                             now_ms |-> now_ms],
               notifications |-> notifications_from(kept, 1, lock)],
            table |-> next_states(kept, lock)] :
          agents \in sorted_agents(
                       agent_views(scan_sources(s, store, log), bindings,
                                   now_ms))}

tick_results(s, store, log, bindings, now_ms, lock) ==
  IF ~s.enabled
  THEN {[payload |-> DisabledPayload(now_ms), table |-> lock]}
  ELSE {[payload |->
           [snapshot |-> [summary |-> MonitorSummary(agents),
                          agents |-> agents,
                          now_ms |-> now_ms],
            notifications |-> notifications_from(agents, 1, lock)],
         table |-> next_states(agents, lock)] :
          agents \in sorted_agents(
                       agent_views(scan_sources(s, store, log), bindings,
                                   now_ms))}

\* Contents of previous_states: nothing, the sessions of the sources in
\* several states, and a session that is gone
Tables ==
  {EmptyMap,
   "codex:c1" :> "running",
   "codex:c1" :> "done",
   "codex:c1" :> "error",
   ("codex:c1" :> "done") @@ ("opencode:s1" :> "error"),
   ("codex:c1" :> "error") @@ ("opencode:s1" :> "done"),
   ("opencode:s1" :> "running") @@ ("codex:c9" :> "done")}

RederiveInputs ==
  {[settings |-> s, parts |-> parts, lines |-> lines, bindings |-> b,
    now |-> t, lock |-> lock] :
     s \in SettingsChoices,
     parts \in {<<>>} \cup {<<f>> : f \in OpencodeParts(0)},
     lines \in {<<>>} \cup {<<l>> : l \in CodexLines(0)},
     b \in {EmptyMap, "codex:c1" :> "/bound/c1"},
     t \in {0, IDLE_AFTER_MS + 1, DONE_AFTER_MS + 1},
     lock \in Tables}

\* The poll of an input, had previous_states held lock
rederived(in, lock) ==
  tick_results(in.settings, JsonStore(<<>>, in.parts),
               [root_exists |-> TRUE, lines |-> in.lines, modified |-> 0],
               in.bindings, in.now, lock)

InitRederive ==
  /\ input \in RederiveInputs
  /\ output = NotCalled
  /\ RegUnused
  /\ PollUnused

TickRederive ==
  /\ ~output.called
  /\ output' = Returned(rederived(input, input.lock))
  /\ UNCHANGED input
  /\ UNCHANGED reg_vars
  /\ UNCHANGED poll_vars

NextRederive == TickRederive

SpecRederive == InitRederive /\ [][NextRederive]_vars

snapshots_of(results) == {r.payload.snapshot : r \in results}

\* C28: the snapshot is derived from scratch on every poll: for the same
\* sources, settings, bindings and current time, the snapshot (agents,
\* states, texts, counters) is the same whatever previous_states holds.
C28_SnapshotIgnoresTable ==
  output.called =>
    \A lock \in Tables :
      snapshots_of(output.value) = snapshots_of(rederived(input, lock))

\* the poll finds the Codex session finished and the table holds it as
\* running, so that it notifies; with the table holding it as done the same
\* snapshot comes with no notification
C28_Witness ==
  /\ output.called
  /\ input.lock = "codex:c1" :> "running"
  /\ \E r \in output.value :
       /\ \E i \in DOMAIN r.payload.snapshot.agents :
            /\ r.payload.snapshot.agents[i].key = "codex:c1"
            /\ r.payload.snapshot.agents[i].state = "done"
       /\ r.payload.notifications # <<>>
       /\ \E q \in rederived(input, "codex:c1" :> "done") :
            /\ q.payload.snapshot = r.payload.snapshot
            /\ q.payload.notifications = <<>>

\* ------------------------------------------------------------------------
\* Specification SpecToolParts: one tool part of session s1, scanned once
\* as a file of the JSON store and once as a row of the database.
\* ------------------------------------------------------------------------
ToolStatuses ==
  {None, "error", "completed", "running", "pending", "ERROR", "Completed"}

\* The payload of a tool part, and the time of the file or row that holds it
ToolPartInputs ==
  {[sessionID |-> sessionID, tool |-> tool, status |-> status,
    time_start |-> time_start, time_end |-> time_end, fallback |-> fallback] :
     sessionID \in {FlatId("s1"), NestedId("s1")},
     tool \in {None, "build"}, status \in ToolStatuses,
     time_start \in {{}, Some(1000)}, time_end \in {{}, Some(2000)},
     fallback \in {1500, 3000}}

tool_part(in) ==
  PartFile(in.sessionID, "tool", in.tool, in.status, in.time_start,
           in.time_end, None, None, in.fallback)

tool_row(in) ==
  PartRow("s1", in.fallback, "tool", in.tool, in.status, in.time_start,
          in.time_end, None, None)

InitToolParts ==
  /\ input \in ToolPartInputs
  /\ output = NotCalled
  /\ RegUnused
  /\ PollUnused

ScanToolPart ==
  /\ ~output.called
  /\ output' = Returned(
       [json |-> scan_opencode(EmptyMap, JsonStore(<<>>, <<tool_part(input)>>)),
        db |-> scan_opencode_db(
                 EmptyMap,
                 OpencodeDb(TRUE, TRUE, TRUE, TRUE, <<>>,
                            <<tool_row(input)>>)).map])
  /\ UNCHANGED input
  /\ UNCHANGED reg_vars
  /\ UNCHANGED poll_vars

NextToolParts == ScanToolPart

SpecToolParts == InitToolParts /\ [][NextToolParts]_vars

\* The status of the part as it is compared and shown: lower case, and
\* running when the payload has none
shown_status ==
  CASE input.status = None -> "running"
    [] input.status = "ERROR" -> "error"
    [] input.status = "Completed" -> "completed"
    [] OTHER -> input.status

shown_tool == IF input.tool = None THEN "tool" ELSE input.tool

expected_tool_state ==
  IF shown_status = "error" THEN "error"
  ELSE IF shown_status = "completed" \/ input.time_end # {} THEN "done"
  ELSE "running"

expected_tool_ts ==
  IF input.time_end # {} THEN CHOOSE t \in input.time_end : TRUE
  ELSE IF input.time_start # {} THEN CHOOSE t \in input.time_start : TRUE
  ELSE input.fallback

\* C29, as the specification states it: a tool part is classified from its
\* nested status (compared in lower case, running when absent): error gives
\* state error and event type error; otherwise completed, or an end
\* timestamp, gives done; otherwise running; the text is
\* "<tool name>: <status>"; the timestamp is the end timestamp if present,
\* else the start timestamp, else the time of the row or file; and the
\* database scanner and the JSON-store scanner give the same result for the
\* same payload.
C29_ToolPartsClassifiedFromStatus ==
  output.called =>
    /\ DOMAIN output.value.db = {"opencode:s1"}
    /\ LET agent == output.value.db["opencode:s1"]
       IN /\ agent.state = expected_tool_state
          /\ agent.last_text = shown_tool \o ": " \o shown_status
          /\ agent.last_ts_ms = expected_tool_ts
          /\ Len(agent.recent_events) = 1
          /\ agent.recent_events[1].event_type =
               (IF shown_status = "error" THEN "error" ELSE "tool")
          /\ agent.recent_events[1].state_hint = expected_tool_state
          /\ agent.recent_events[1].text = agent.last_text
          /\ agent.recent_events[1].ts_ms = expected_tool_ts
    /\ output.value.json = output.value.db

\* ------------------------------------------------------------------------
\* Specification SpecModified: the timestamp of the observation that each
\* scanner makes from a record that carries no time of its own, as a
\* function of the modification time of its file (an i64 of milliseconds,
\* never negative: modified_ms, lib.rs:1519-1525).
\* ------------------------------------------------------------------------
\* scan_opencode, message files (lib.rs:884-886)
message_ts(created, modified) ==
  normalize_epoch_ms(unwrap_or(created, modified))

\* scan_opencode, part files (lib.rs:941); a step-start or step-finish part
\* is timed by it, and so is a part without start and end
part_modified(modified) == normalize_epoch_ms(modified)

\* scan_codex (lib.rs:1133, 1183-1188)
codex_ts(ts, modified) ==
  IF ts = {} THEN modified
  ELSE normalize_epoch_ms(CHOOSE t \in ts : TRUE)

Carriers == {"message file", "part file", "log line"}

ModifiedInputs ==
  {[carrier |-> carrier, modified |-> i64(FALSE, m)] :
     carrier \in Carriers, m \in EpochMagnitudes}

InitModified ==
  /\ input \in ModifiedInputs
  /\ output = NotCalled
  /\ RegUnused
  /\ PollUnused

ScanModified ==
  /\ ~output.called
  /\ output' = Returned(
       CASE input.carrier = "message file" -> message_ts({}, input.modified)
         [] input.carrier = "part file" -> part_modified(input.modified)
         [] input.carrier = "log line" -> codex_ts({}, input.modified))
  /\ UNCHANGED input
  /\ UNCHANGED reg_vars
  /\ UNCHANGED poll_vars

NextModified == ScanModified

SpecModified == InitModified /\ [][NextModified]_vars

\* C30, as the specification states it: a file modification time used as
\* an observation's timestamp enters the registry unchanged, in every
\* scanner and for every modification-time value.
C30_ModificationTimeUnchanged ==
  output.called => output.value = input.modified

\* ------------------------------------------------------------------------
\* Specification SpecArchived: scan_opencode_db over a session table whose
\* row for session s1 is archived or not, beside a session s2 that is not,
\* and a part table holding at most one part of s1.
\* ------------------------------------------------------------------------
\* A row of the session table: the columns the statement selects, and
\* time_archived (NULL is the empty set)
SessionRecord(row, time_archived) ==
  [row |-> row, time_archived |-> time_archived]

\* SELECT ... FROM session WHERE time_archived IS NULL OR time_archived = 0,
\* with no row left out
select_sessions_archived_too(table) ==
  [i \in DOMAIN table |-> table[i].row]

\* SELECT ... FROM session WHERE time_archived IS NULL OR time_archived = 0
\* (the table is given by time_updated descending)
select_sessions(table) ==
  LET kept == SelectSeq(table, LAMBDA r : r.time_archived = {}
                                            \/ r.time_archived = Some(0))
  IN [i \in DOMAIN kept |-> kept[i].row]

\* The database file with the given tables, found, opened and prepared
OpencodeDbFile(session_table, part_table) ==
  OpencodeDb(TRUE, TRUE, TRUE, TRUE, select_sessions(session_table),
             part_table)

ArchivedInputs ==
  {[time_archived |-> time_archived, title |-> title, others |-> others,
    parts |-> parts] :
     time_archived \in {{}, Some(0), Some(2500)},
     title \in {None, "Fix login"},
     others \in {<<>>, <<SessionRecord(SessionRow("s2", "/repo/other",
                                                  "Other", 2000), {})>>},
     parts \in DbPartLists}

archived_session_table(in) ==
  in.others \o <<SessionRecord(SessionRow("s1", "/repo/db", in.title, 1500),
                               in.time_archived)>>

InitArchived ==
  /\ input \in ArchivedInputs
  /\ output = NotCalled
  /\ RegUnused
  /\ PollUnused

ScanArchived ==
  /\ ~output.called
  /\ output' = Returned(
       scan_opencode_db(EmptyMap,
                        OpencodeDbFile(archived_session_table(input),
                                       input.parts)).map)
  /\ UNCHANGED input
  /\ UNCHANGED reg_vars
  /\ UNCHANGED poll_vars

NextArchived == ScanArchived

SpecArchived == InitArchived /\ [][NextArchived]_vars

s1_is_archived == input.time_archived \notin {{}, Some(0)}

\* C32: an archived session row seeds no observation, no repo path and no
\* title; a part row of the archived session still produces an agent for
\* the session, from the part alone, with no repo path and no title.
C32_ArchivedSessionSeedsNothing ==
  (output.called /\ s1_is_archived) =>
    IF input.parts = <<>>
    THEN "opencode:s1" \notin DOMAIN output.value
    ELSE /\ "opencode:s1" \in DOMAIN output.value
         /\ output.value["opencode:s1"].repo_path = None
         /\ output.value["opencode:s1"].agent_name = None
         /\ output.value["opencode:s1"].state =
              classify_part(input.parts[1], input.parts[1].time_updated).state
         /\ Len(output.value["opencode:s1"].recent_events) = 1
         /\ output.value["opencode:s1"].last_text # "Session activity"

\* the archived session has a title and a failed tool part, beside a
\* session that is not archived: the part's agent is there, without title
\* and repo path, and so is the other session's
C32_Witness ==
  /\ output.called
  /\ s1_is_archived
  /\ input.title = "Fix login"
  /\ input.others # <<>>
  /\ "opencode:s2" \in DOMAIN output.value
  /\ "opencode:s1" \in DOMAIN output.value
  /\ output.value["opencode:s1"].state = "error"
  /\ output.value["opencode:s1"].repo_path = None
  /\ output.value["opencode:s1"].agent_name = None

\* ------------------------------------------------------------------------
\* Specification SpecSessionParts: scan_opencode_db over the row of session
\* s1, updated at one of five instants, and at most two part rows of s1
\* timed 1000 or 2000 (or by their row).
\* ------------------------------------------------------------------------
SessionTimes == {1000, 1500, 2000, 2500, 3500}

\* The lists of at most two part rows with different contents, the newest
\* row first
DbPartRows ==
  DbPartLists \cup
  {<<part_row(pair[1], 1), part_row(pair[2], 2)>> :
     pair \in {q \in PartContents \X PartContents : q[1] # q[2]}}

SessionPartsInputs ==
  {[time_updated |-> t, parts |-> parts] :
     t \in SessionTimes, parts \in DbPartRows}

InitSessionParts ==
  /\ input \in SessionPartsInputs
  /\ output = NotCalled
  /\ RegUnused
  /\ PollUnused

ScanSessionParts ==
  /\ ~output.called
  /\ output' = Returned(
       scan_opencode_db(
         EmptyMap,
         OpencodeDb(TRUE, TRUE, TRUE, TRUE,
                    <<SessionRow("s1", "/repo/db", None,
                                 input.time_updated)>>,
                    input.parts)).map)
  /\ UNCHANGED input
  /\ UNCHANGED reg_vars
  /\ UNCHANGED poll_vars

NextSessionParts == ScanSessionParts

SpecSessionParts == InitSessionParts /\ [][NextSessionParts]_vars

\* The part rows whose timestamp is not before the session's update time
parts_not_older ==
  {i \in DOMAIN input.parts :
     classify_part(input.parts[i], input.parts[i].time_updated).ts >= input.time_updated}

\* C40: the session rows are folded before the part rows, each as a running
\* observation with the text "Session activity" at the session's update
\* time; the session's agent takes the state and text of a part row only
\* when that part's timestamp is at or after the session's update time,
\* and is otherwise left running with the text "Session activity", even
\* when its most recent part is done or in error.
C40_SessionRowOutlivesOlderParts ==
  output.called =>
    LET agent == output.value["opencode:s1"]
    IN /\ DOMAIN output.value = {"opencode:s1"}
       /\ parts_not_older = {}
            => /\ agent.state = "running"
               /\ agent.last_text = "Session activity"
               /\ agent.last_ts_ms = input.time_updated
       /\ parts_not_older # {}
            => \E i \in parts_not_older :
                 /\ agent.state = classify_part(input.parts[i], input.parts[i].time_updated).state
                 /\ agent.last_text = classify_part(input.parts[i], input.parts[i].time_updated).text
                 /\ agent.last_ts_ms = classify_part(input.parts[i], input.parts[i].time_updated).ts

\* the session was updated at 1500 and its one part, a failed tool part,
\* ended at 1000: the agent is running; and so it is not with the session
\* updated at 1000
C40_Witness ==
  /\ output.called
  /\ Len(input.parts) = 1
  /\ classify_part(input.parts[1], input.parts[1].time_updated).state = "error"
  /\ classify_part(input.parts[1], input.parts[1].time_updated).ts = 1000
  /\ \/ /\ input.time_updated = 1500
        /\ output.value["opencode:s1"].state = "running"
        /\ output.value["opencode:s1"].last_text = "Session activity"
     \/ /\ input.time_updated = 1000
        /\ output.value["opencode:s1"].state = "error"
====
